---- MODULE Spec2Model ----
(***************************************************************************)
(* Model of the resilient LLM invocation protocol of agents_core           *)
(* (AbstractAgent.call_llm / llm_json / __call_llm), its JSON extraction   *)
(* helper (json_utils.to_json_object) and the URL relevance selector       *)
(* (agents_research.url_selection.UrlSelectionAgent).                      *)
(*                                                                         *)
(* Text is a sequence of one-character strings.  JSON values are tagged    *)
(* records:  [t |-> "num", v |-> n]      an integer                        *)
(*           [t |-> "str", v |-> chars]  a string                          *)
(*           [t |-> "lit", v |-> name]   null / true / false               *)
(*           [t |-> "arr", v |-> <<values>>]                               *)
(*           [t |-> "obj", v |-> <<[k |-> chars, val |-> value], ...>>]    *)
(* An object keeps its members in insertion order, as a Python dict does.  *)
(***************************************************************************)
EXTENDS Integers, Sequences, FiniteSets, TLC

(***************************************************************************)
(* Characters and text helpers.                                            *)
(***************************************************************************)
LF == "\n"
QUOTE == "\""
BSLASH == "\\"
\* the backquote character (a TLA+ string cannot hold it)
TICK == "BQ"

Digits == <<"0", "1", "2", "3", "4", "5", "6", "7", "8", "9">>

IsDigit(c) == \E d \in 1..10 : Digits[d] = c

DigitVal(c) == (CHOOSE d \in 1..10 : Digits[d] = c) - 1

IsWs(c) == c \in {" ", LF}

\* s has the text p at position i
StartsAt(s, i, p) ==
    /\ i >= 1
    /\ i + Len(p) - 1 <= Len(s)
    /\ \A k \in 1..Len(p) : s[i + k - 1] = p[k]

JNum(n) == [t |-> "num", v |-> n]
JStr(cs) == [t |-> "str", v |-> cs]
JLit(name) == [t |-> "lit", v |-> name]
JArr(vs) == [t |-> "arr", v |-> vs]
JObj(ms) == [t |-> "obj", v |-> ms]
Member(key, value) == [k |-> key, val |-> value]

(***************************************************************************)
(* json.dumps with its defaults: members separated by ", ", keys by ": ",  *)
(* no newline in the output; quote, backslash and newline inside a string  *)
(* are escaped.                                                            *)
(***************************************************************************)
RECURSIVE DumpsInt(_)
DumpsInt(n) == IF n < 10 THEN <<Digits[n + 1]>>
               ELSE DumpsInt(n \div 10) \o <<Digits[(n % 10) + 1]>>

RECURSIVE EscapeChars(_)
EscapeChars(cs) ==
    IF cs = <<>> THEN <<>>
    ELSE LET c == Head(cs)
             e == IF c = QUOTE THEN <<BSLASH, QUOTE>>
                  ELSE IF c = BSLASH THEN <<BSLASH, BSLASH>>
                  ELSE IF c = LF THEN <<BSLASH, "n">>
                  ELSE <<c>>
         IN  e \o EscapeChars(Tail(cs))

DumpsStr(cs) == <<QUOTE>> \o EscapeChars(cs) \o <<QUOTE>>

RECURSIVE Dumps(_)
RECURSIVE DumpsElems(_)
RECURSIVE DumpsMembers(_)
DumpsElems(vs) ==
    IF vs = <<>> THEN <<>>
    ELSE Dumps(Head(vs))
         \o (IF Len(vs) > 1 THEN <<",", " ">> \o DumpsElems(Tail(vs)) ELSE <<>>)

DumpsMembers(ms) ==
    IF ms = <<>> THEN <<>>
    ELSE DumpsStr(Head(ms).k) \o <<":", " ">> \o Dumps(Head(ms).val)
         \o (IF Len(ms) > 1 THEN <<",", " ">> \o DumpsMembers(Tail(ms)) ELSE <<>>)

Dumps(x) ==
    CASE x.t = "num" -> DumpsInt(x.v)
      [] x.t = "str" -> DumpsStr(x.v)
      [] x.t = "lit" -> (CASE x.v = "null" -> <<"n", "u", "l", "l">>
                           [] x.v = "true" -> <<"t", "r", "u", "e">>
                           [] x.v = "false" -> <<"f", "a", "l", "s", "e">>)
      [] x.t = "arr" -> <<"[">> \o DumpsElems(x.v) \o <<"]">>
      [] x.t = "obj" -> <<"{">> \o DumpsMembers(x.v) \o <<"}">>

(***************************************************************************)
(* json.loads.  A parse step returns [ok, v, pos]: the value read and the  *)
(* position after it, or ok = FALSE for a JSONDecodeError.                 *)
(***************************************************************************)
ParseFail == [v |-> JLit("null"), ok |-> FALSE, pos |-> 0]
ParseOk(value, p) == [v |-> value, ok |-> TRUE, pos |-> p]

RECURSIVE SkipWs(_, _)
SkipWs(s, i) == IF i <= Len(s) /\ IsWs(s[i]) THEN SkipWs(s, i + 1) ELSE i

\* the digits of an integer from position i on, acc the value read so far
RECURSIVE ParseDigits(_, _, _)
ParseDigits(s, i, acc) ==
    IF i <= Len(s) /\ IsDigit(s[i])
    THEN ParseDigits(s, i + 1, acc * 10 + DigitVal(s[i]))
    ELSE ParseOk(JNum(acc), i)

\* a number: 0, or a non-zero digit followed by digits
ParseNumber(s, i) ==
    IF s[i] = "0" THEN ParseOk(JNum(0), i + 1)
    ELSE ParseDigits(s, i, 0)

\* the characters of a string from position i on (after the opening quote);
\* a raw newline inside a string is rejected, and of the escapes only the
\* three that Dumps writes occur in the texts of this model
RECURSIVE ParseChars(_, _, _)
ParseChars(s, i, acc) ==
    IF i > Len(s) THEN ParseFail
    ELSE IF s[i] = QUOTE THEN ParseOk(JStr(acc), i + 1)
    ELSE IF s[i] = LF THEN ParseFail
    ELSE IF s[i] = BSLASH THEN
        IF i + 1 > Len(s) THEN ParseFail
        ELSE IF s[i + 1] = QUOTE THEN ParseChars(s, i + 2, Append(acc, QUOTE))
        ELSE IF s[i + 1] = BSLASH THEN ParseChars(s, i + 2, Append(acc, BSLASH))
        ELSE IF s[i + 1] = "n" THEN ParseChars(s, i + 2, Append(acc, LF))
        ELSE ParseFail
    ELSE ParseChars(s, i + 1, Append(acc, s[i]))

\* dict assignment: an existing key keeps its place and takes the new value
PutMember(ms, key, value) ==
    IF \E j \in 1..Len(ms) : ms[j].k = key
    THEN [j \in 1..Len(ms) |-> IF ms[j].k = key THEN Member(key, value) ELSE ms[j]]
    ELSE Append(ms, Member(key, value))

RECURSIVE ParseValue(_, _)
RECURSIVE ParseElems(_, _, _)
RECURSIVE ParseMembers(_, _, _)

\* the elements of an array, i at the start of an element
ParseElems(s, i, acc) ==
    LET r == ParseValue(s, i)
    IN  IF ~r.ok THEN ParseFail
        ELSE LET j == SkipWs(s, r.pos)
                 vs == Append(acc, r.v)
             IN  IF j > Len(s) THEN ParseFail
                 ELSE IF s[j] = "]" THEN ParseOk(JArr(vs), j + 1)
                 ELSE IF s[j] = "," THEN ParseElems(s, SkipWs(s, j + 1), vs)
                 ELSE ParseFail

\* the members of an object, i at the opening quote of a key
ParseMembers(s, i, acc) ==
    IF i > Len(s) \/ s[i] # QUOTE THEN ParseFail
    ELSE LET key == ParseChars(s, i + 1, <<>>)
         IN  IF ~key.ok THEN ParseFail
             ELSE LET c == SkipWs(s, key.pos)
                  IN  IF c > Len(s) \/ s[c] # ":" THEN ParseFail
                      ELSE LET r == ParseValue(s, SkipWs(s, c + 1))
                           IN  IF ~r.ok THEN ParseFail
                               ELSE LET j == SkipWs(s, r.pos)
                                        ms == PutMember(acc, key.v.v, r.v)
                                    IN  IF j > Len(s) THEN ParseFail
                                        ELSE IF s[j] = "}" THEN ParseOk(JObj(ms), j + 1)
                                        ELSE IF s[j] = "," THEN ParseMembers(s, SkipWs(s, j + 1), ms)
                                        ELSE ParseFail

ParseValue(s, i) ==
    IF i > Len(s) THEN ParseFail
    ELSE IF s[i] = "[" THEN
        LET j == SkipWs(s, i + 1)
        IN  IF j <= Len(s) /\ s[j] = "]" THEN ParseOk(JArr(<<>>), j + 1)
            ELSE ParseElems(s, j, <<>>)
    ELSE IF s[i] = "{" THEN
        LET j == SkipWs(s, i + 1)
        IN  IF j <= Len(s) /\ s[j] = "}" THEN ParseOk(JObj(<<>>), j + 1)
            ELSE ParseMembers(s, j, <<>>)
    ELSE IF s[i] = QUOTE THEN ParseChars(s, i + 1, <<>>)
    ELSE IF IsDigit(s[i]) THEN ParseNumber(s, i)
    ELSE IF StartsAt(s, i, <<"n", "u", "l", "l">>) THEN ParseOk(JLit("null"), i + 4)
    ELSE IF StartsAt(s, i, <<"t", "r", "u", "e">>) THEN ParseOk(JLit("true"), i + 4)
    ELSE IF StartsAt(s, i, <<"f", "a", "l", "s", "e">>) THEN ParseOk(JLit("false"), i + 5)
    ELSE ParseFail

\* json.loads: one value, white space around it, nothing after it
Loads(s) ==
    LET r == ParseValue(s, SkipWs(s, 1))
    IN  IF r.ok /\ SkipWs(s, r.pos) = Len(s) + 1 THEN ParseOk(r.v, r.pos)
        ELSE ParseFail

(***************************************************************************)
(* json_utils.to_json_object: re.search of                                 *)
(*     ```(json|python)\n([\s\S]*?)\n```                                   *)
(* finds the leftmost opening fence that has a closing fence after it and  *)
(* captures the shortest body; json.loads is applied to the captured body  *)
(* if there is a match and to the whole response otherwise.                *)
(***************************************************************************)
\* a pattern that also takes a fence without a label
FenceLabelsOptional == {<<"j", "s", "o", "n">>, <<"p", "y", "t", "h", "o", "n">>, <<>>}

FenceLabels == {<<"j", "s", "o", "n">>, <<"p", "y", "t", "h", "o", "n">>}

FenceOpen(label) == <<TICK, TICK, TICK>> \o label \o <<LF>>

FenceClose == <<LF, TICK, TICK, TICK>>

\* the positions at which the pattern can start: an opening fence at i,
\* and a closing fence at or after the end of the opening fence
MatchStarts(s) ==
    {i \in 1..Len(s) :
        \E label \in FenceLabels :
            /\ StartsAt(s, i, FenceOpen(label))
            /\ \E j \in (i + Len(FenceOpen(label)))..Len(s) : StartsAt(s, j, FenceClose)}

Min(S) == CHOOSE m \in S : \A n \in S : m <= n

\* re.search: [found, label, body] of the leftmost match, group(1) and group(2)
SearchFence(s) ==
    IF MatchStarts(s) = {} THEN [label |-> <<>>, found |-> FALSE, body |-> <<>>]
    ELSE LET i == Min(MatchStarts(s))
             lab == CHOOSE label \in FenceLabels : StartsAt(s, i, FenceOpen(label))
             b == i + Len(FenceOpen(lab))
             j == Min({e \in b..Len(s) : StartsAt(s, e, FenceClose)})
         IN  [label |-> lab, found |-> TRUE, body |-> SubSeq(s, b, j - 1)]

(***************************************************************************)
(* Exceptions and message text.  A message is a sequence of parts: literal *)
(* text or an interpolated integer; str(e) of an exception is its message, *)
(* str(None) is "None".                                                    *)
(***************************************************************************)
Lit(text) == [s |-> text, k |-> "lit", n |-> 0]
IntPart(i) == [s |-> "", k |-> "int", n |-> i]

Exc(type, msg) == [type |-> type, msg |-> msg]

NoException == Exc("None", <<>>)

Str(e) == IF e = NoException THEN <<Lit("None")>> ELSE e.msg

\* the outcome of a call that may raise: the value returned, or the exception
Pending == [val |-> <<>>, st |-> "pending", exc |-> NoException]
Returned(value) == [val |-> value, st |-> "returned", exc |-> NoException]
Raised(e) == [val |-> <<>>, st |-> "raised", exc |-> e]

JSONDecodeError == Exc("JSONDecodeError", <<Lit("Expecting value")>>)

JsonLoads(s) == IF Loads(s).ok THEN Returned(Loads(s).v) ELSE Raised(JSONDecodeError)

\* an extraction that parses group(1), the label, instead of group(2)
to_json_object_group1(llm_response) ==
    LET json_match == SearchFence(llm_response)
    IN  IF json_match.found THEN JsonLoads(json_match.label)
        ELSE JsonLoads(llm_response)

to_json_object(llm_response) ==
    LET json_match == SearchFence(llm_response)
    IN  IF json_match.found THEN JsonLoads(json_match.body)
        ELSE JsonLoads(llm_response)

(***************************************************************************)
(* UrlSelectionAgent: the score mapping and the threshold filter.          *)
(***************************************************************************)
K_url == <<"u", "r", "l">>
K_relevance == <<"r", "e", "l", "e", "v", "a", "n", "c", "e">>
K_rationale == <<"r", "a", "t", "i", "o", "n", "a", "l", "e">>

HasKey(obj, key) == \E j \in 1..Len(obj.v) : obj.v[j].k = key

Get(obj, key) == obj.v[CHOOSE j \in 1..Len(obj.v) : obj.v[j].k = key].val

\* text without the white space around it
RECURSIVE RStrip(_)
RStrip(cs) == IF cs # <<>> /\ IsWs(cs[Len(cs)]) THEN RStrip(SubSeq(cs, 1, Len(cs) - 1)) ELSE cs

Strip(cs) == RStrip(SubSeq(cs, SkipWs(cs, 1), Len(cs)))

\* float(x) of a JSON value: a number as it is, true and false as 1 and 0,
\* a string of digits (white space around it allowed) as its value; any
\* other string is a ValueError, any other value a TypeError
ToFloat(x) ==
    CASE x.t = "num" -> Returned(x.v)
      [] x.t = "lit" /\ x.v = "true" -> Returned(1)
      [] x.t = "lit" /\ x.v = "false" -> Returned(0)
      [] x.t = "str" ->
            LET cs == Strip(x.v)
            IN  IF cs # <<>> /\ \A i \in 1..Len(cs) : IsDigit(cs[i])
                THEN Returned(ParseDigits(cs, 1, 0).v.v)
                ELSE Raised(Exc("ValueError", <<Lit("could not convert string to float")>>))
      [] OTHER -> Raised(Exc("TypeError", <<Lit("float() argument must be a string or a real number")>>))

\* UrlRelevanceScore(url=score["url"], relevance=float(score["relevance"]),
\*                   rationale=score["rationale"]) for one element of the response
ToUrlRelevanceScore(score) ==
    IF score.t # "obj" THEN Raised(Exc("TypeError", <<Lit("indices must be integers")>>))
    ELSE IF ~HasKey(score, K_url) THEN Raised(Exc("KeyError", <<Lit("url")>>))
    ELSE IF ~HasKey(score, K_relevance) THEN Raised(Exc("KeyError", <<Lit("relevance")>>))
    ELSE IF ToFloat(Get(score, K_relevance)).st = "raised" THEN ToFloat(Get(score, K_relevance))
    ELSE IF ~HasKey(score, K_rationale) THEN Raised(Exc("KeyError", <<Lit("rationale")>>))
    ELSE IF Get(score, K_url).t # "str" \/ Get(score, K_rationale).t # "str"
    THEN Raised(Exc("ValidationError", <<Lit("Input should be a valid string")>>))
    ELSE Returned([url |-> Get(score, K_url).v,
                   relevance |-> ToFloat(Get(score, K_relevance)).val,
                   rationale |-> Get(score, K_rationale).v])

\* a dict that keeps the first score of a URL
PutScoreKeepsFirst(scores, score) ==
    IF \E j \in 1..Len(scores) : scores[j].url = score.url
    THEN scores
    ELSE Append(scores, score)

\* dict assignment keyed by URL: an existing key keeps its place and takes
\* the new score
PutScore(scores, score) ==
    IF \E j \in 1..Len(scores) : scores[j].url = score.url
    THEN [j \in 1..Len(scores) |-> IF scores[j].url = score.url THEN score ELSE scores[j]]
    ELSE Append(scores, score)

RECURSIVE ScoresOf(_, _)
ScoresOf(elems, acc) ==
    IF elems = <<>> THEN Returned(acc)
    ELSE LET r == ToUrlRelevanceScore(Head(elems))
         IN  IF r.st = "raised" THEN r
             ELSE ScoresOf(Tail(elems), PutScore(acc, r.val))

\* _list_to_dict: the dict comprehension over the parsed response.  Iterating
\* an empty object or an empty string yields nothing; every other value that
\* is not an array fails with a TypeError.
list_to_dict(list_of_scores) ==
    IF list_of_scores.t = "arr" THEN ScoresOf(list_of_scores.v, <<>>)
    ELSE IF list_of_scores.t \in {"obj", "str"} /\ list_of_scores.v = <<>> THEN Returned(<<>>)
    ELSE Raised(Exc("TypeError", <<Lit("not iterable or indices must be integers")>>))

\* a filter that drops a score equal to the threshold
RECURSIVE FilterUrlsStrict(_, _)
FilterUrlsStrict(scores, threshold) ==
    IF scores = <<>> THEN <<>>
    ELSE (IF Head(scores).relevance > threshold THEN <<Head(scores).url>> ELSE <<>>)
         \o FilterUrlsStrict(Tail(scores), threshold)

RECURSIVE FilterUrls(_, _)
FilterUrls(scores, threshold) ==
    IF scores = <<>> THEN <<>>
    ELSE (IF Head(scores).relevance >= threshold THEN <<Head(scores).url>> ELSE <<>>)
         \o FilterUrls(Tail(scores), threshold)

\* _get_relevance_scores after llm_json has returned json_response
get_relevance_scores(json_response, threshold) ==
    LET relevance_scores == list_to_dict(json_response)
    IN  IF relevance_scores.st = "raised" THEN relevance_scores
        ELSE Returned(FilterUrls(relevance_scores.val, threshold))

(***************************************************************************)
(* Bounds of the model.                                                    *)
(***************************************************************************)
MaxRetries == 3
MaxCandidates == 2
MaxElems == 2

(***************************************************************************)
(* The state: an agent, its LLM stub, and one invocation of call_llm,      *)
(* llm_json or select_urls running through AbstractAgent.__call_llm.       *)
(***************************************************************************)
VARIABLES
    max_retries,          \* agent configuration
    relevance_threshold,  \* UrlSelectionAgent configuration
    entry,                \* the public method invoked: call_llm, llm_json, select_urls
    prompt,               \* the prompt given to the model
    search_results,       \* the candidates given to select_urls
    pc,                   \* idle, loop (before a model call), returned, raised
    attempt,              \* loop variable of __call_llm
    last_exception,       \* local of __call_llm
    response_text,        \* local of __call_llm: [none, text]
    call_count,           \* number of calls of llm.call
    llm_history,          \* what each call of llm.call was given and did
    events,               \* the model calls and the sleeps, in order
    log,                  \* the log.warning records
    llm_result,           \* what __call_llm delivered
    outcome,              \* what the public method delivered to its caller
    jx, jtext, jshape, jout   \* JSON extraction: value, text, how it was built, result

engineVars == <<max_retries, relevance_threshold, entry, prompt, search_results, pc,
                attempt, last_exception, response_text, call_count, llm_history,
                events, log, llm_result, outcome>>

jsonVars == <<jx, jtext, jshape, jout>>

NoneText == [text |-> <<>>, none |-> TRUE]
SomeText(cs) == [text |-> cs, none |-> FALSE]

\* the failures of llm.call
LLMFailures == {Exc("Exception", <<Lit("Connection timed out")>>),
                Exc("Exception", <<Lit("Rate limit exceeded")>>)}

RECURSIVE Pow(_, _)
Pow(b, e) == IF e = 0 THEN 1 ELSE b * Pow(b, e - 1)

base_delay == 1

\* a delay that grows linearly: base_delay * 1.5 * attempt
DelayLinear(a) == [num |-> base_delay * 3 * a, den |-> 2]

\* base_delay * (1.5 ** attempt), as the fraction num / den
Delay(a) == [num |-> base_delay * Pow(3, a), den |-> Pow(2, a)]

CallEvent == [num |-> 0, den |-> 1, kind |-> "call"]
SleepEvent(delay) == [num |-> delay.num, den |-> delay.den, kind |-> "sleep"]

\* a call of llm.call: the prompt given, and the answer returned or the
\* exception raised
LlmReturn(p, answer) == [ok |-> TRUE, exc |-> NoException, prompt |-> p, answer |-> answer]
LlmRaise(p, e, none) == [ok |-> FALSE, exc |-> e, prompt |-> p, answer |-> none]

\* the response handler of the public method m
ResponseHandler(m, text) ==
    IF m = "call_llm" THEN Returned(text) ELSE to_json_object(text)

\* the error handler of the public method m
ErrorHandler(m, e) ==
    IF m = "call_llm" THEN Exc("LLMError", Str(e))
    ELSE Exc("LLMError", <<Lit("Failed to parse LLM response as JSON after "),
                           IntPart(max_retries),
                           Lit(" attempts. Original error: ")>> \o Str(e))

\* what the public method m makes of the value __call_llm returned
Deliver(m, value) ==
    IF m = "select_urls" THEN get_relevance_scores(value, relevance_threshold)
    ELSE Returned(value)

(***************************************************************************)
(* Prompts and candidates.                                                 *)
(***************************************************************************)
Url(i) == <<"u", Digits[i + 1]>>

SearchResult(i) == [url |-> Url(i), title |-> "Title", summarised_content |-> "Content"]

Candidates(n) == [i \in 1..n |-> SearchResult(i)]

RawPrompt == [template |-> "test prompt", topic |-> "", url_list_section |-> <<>>]

\* _build_selection_prompt: the template filled with the topic and one
\* numbered section per search result
build_selection_prompt(srs) ==
    [template |-> "agents-research-url-selector-prompt",
     topic |-> "test topic",
     url_list_section |-> [i \in 1..Len(srs) |->
                              [url |-> srs[i].url, title |-> srs[i].title,
                               summarised_content |-> srs[i].summarised_content,
                               result |-> i]]]

(***************************************************************************)
(* What the model can answer.  llm.call is external: it raises one of      *)
(* LLMFailures or returns one of the texts below.                          *)
(***************************************************************************)
Fence(label, body) == FenceOpen(label) \o body \o FenceClose

L_json == <<"j", "s", "o", "n">>
L_python == <<"p", "y", "t", "h", "o", "n">>

Prose == <<"n", "o", "t", " ", "J", "S", "O", "N">>

\* An answer of the stub: the text returned and what the stub meant by it:
\* whether the text holds a JSON value and which, and for an answer that
\* scores exactly the candidates the URLs in emission order with their scores.
Answer(text, wellformed, value, exact, urls, rels) ==
    [value |-> value, text |-> text, wellformed |-> wellformed,
     exact |-> exact, urls |-> urls, rels |-> rels]

PlainAnswer(text) == Answer(text, FALSE, JLit("null"), FALSE, <<>>, <<>>)
JsonAnswer(text, x) == Answer(text, TRUE, x, FALSE, <<>>, <<>>)
NoAnswer == PlainAnswer(<<>>)

TextResponses == {PlainAnswer(<<"M", "o", "c", "k">>), PlainAnswer(<<"o", "k">>)}

Malformed == {PlainAnswer(Prose), PlainAnswer(Fence(L_json, Prose))}

JsonSamples == {JArr(<<JNum(1)>>), JObj(<<Member(<<"k">>, JStr(<<"v">>))>>)}

JsonResponses ==
    {JsonAnswer(Dumps(x), x) : x \in JsonSamples}
    \cup {JsonAnswer(Fence(L_json, Dumps(x)), x) : x \in JsonSamples}
    \cup Malformed

Thresholds == {5, 6}
Relevances == {2, 6, 9}

\* one record of the model's judgement; the relevance is emitted as a
\* numeric string (enc = "str") or as a number
ScoreEntry(url, relevance, enc) ==
    JObj(<<Member(K_url, JStr(url)),
           Member(K_relevance, IF enc = "str" THEN JStr(DumpsInt(relevance)) ELSE JNum(relevance)),
           Member(K_rationale, JStr(<<"r">>))>>)

\* the orders in which the model may emit the n candidates
Orders(n) == {[i \in 1..n |-> i], [i \in 1..n |-> n + 1 - i]}

ScoreList(urls, rels, enc) == JArr([i \in 1..Len(urls) |-> ScoreEntry(urls[i], rels[i], enc)])

\* the answers that score exactly the n candidates: plain with string or
\* number scores, or in a fenced block
ExactAnswers(n) ==
    UNION {{Answer(Dumps(ScoreList(urls, rels, "str")), TRUE, ScoreList(urls, rels, "str"),
                   TRUE, urls, rels),
            Answer(Dumps(ScoreList(urls, rels, "num")), TRUE, ScoreList(urls, rels, "num"),
                   TRUE, urls, rels),
            Answer(Fence(L_json, Dumps(ScoreList(urls, rels, "num"))), TRUE,
                   ScoreList(urls, rels, "num"), TRUE, urls, rels)} :
           urls \in {[i \in 1..n |-> Url(ord[i])] : ord \in Orders(n)},
           rels \in [1..n -> Relevances]}

\* answers that do not score exactly the candidates: a URL that is no
\* candidate, a relevance that is no number, a record without rationale, no
\* list at all, a candidate left out, and a candidate scored twice
OtherScoreLists(n) ==
    LET base == [i \in 1..n |-> ScoreEntry(Url(i), 9, "str")]
        high == JObj(<<Member(K_url, JStr(Url(1))),
                       Member(K_relevance, JStr(<<"h", "i", "g", "h">>)),
                       Member(K_rationale, JStr(<<"r">>))>>)
        bare == JObj(<<Member(K_url, JStr(Url(1))), Member(K_relevance, JStr(<<"9">>))>>)
    IN  {JArr(Append(base, ScoreEntry(Url(0), 9, "str"))),
         JArr(Append(base, high)),
         JArr(Append(base, bare)),
         JObj(<<Member(<<"d">>, JStr(<<"j">>))>>)}
        \cup (IF n = 0 THEN {}
              ELSE {JArr(Tail(base)),
                    JArr(Append(base, ScoreEntry(Url(1), 2, "str")))})

SelectResponses(n) ==
    ExactAnswers(n)
    \cup {JsonAnswer(Dumps(x), x) : x \in OtherScoreLists(n)}
    \cup Malformed

\* the answers to a selection prompt, for each number of candidates
SelectResponsesFor == [n \in 0..MaxCandidates |-> SelectResponses(n)]

LlmResponses ==
    CASE entry = "call_llm" -> TextResponses
      [] entry = "llm_json" -> JsonResponses
      [] entry = "select_urls" -> SelectResponsesFor[Len(search_results)]

\* response_handler(response_text) of each public method, for each text the
\* model may answer it with
HandledResponse ==
    LET texts(m) ==
            CASE m = "call_llm" -> {a.text : a \in TextResponses}
              [] m = "llm_json" -> {a.text : a \in JsonResponses}
              [] m = "select_urls" ->
                    UNION {{a.text : a \in SelectResponsesFor[n]} : n \in 0..MaxCandidates}
    IN  [m \in {"call_llm", "llm_json", "select_urls"} |->
            [text \in texts(m) |-> ResponseHandler(m, text)]]

(***************************************************************************)
(* The state of the other components.  Each component has a specification  *)
(* of its own, in which the variables of the others keep their initial     *)
(* values.                                                                 *)
(***************************************************************************)
VARIABLES
    \* ResearchAgent.run_research
    research_topic,       \* the argument topic
    max_iterations,       \* the argument max_iterations
    rpc,                  \* idle, loop, after_loop, returned, raised
    iteration,            \* the iterations of the for loop begun so far
    history,              \* local history: the list of action records
    results,              \* local results: the list of ResearchResult
    summary,              \* local summary
    research_calls,       \* the calls of llm.call, in order
    tool_calls,           \* the calls of search_tool.execute and scrape_tool.execute
    research_outcome      \* what run_research delivered to its caller

researchVars == <<research_topic, max_iterations, rpc, iteration, history, results,
                  summary, research_calls, tool_calls, research_outcome>>

VARIABLES
    \* PlannerAgent.generate_plan
    goal,                 \* the argument goal
    ppc,                  \* idle, calling (inside _get_plan), returned, raised
    planner_calls,        \* the calls of llm.call, in order
    plan_outcome          \* what generate_plan delivered to its caller

plannerVars == <<goal, ppc, planner_calls, plan_outcome>>

VARIABLES
    \* CrewAIOrchestrator
    crewai_agents,        \* the list of crewai agents
    crewai_tasks,         \* the list of crewai tasks
    agent_map,            \* id(agent) -> crewai agent
    orch_calls            \* the calls of add_agent, add_task and execute, in order

orchVars == <<crewai_agents, crewai_tasks, agent_map, orch_calls>>

VARIABLES
    \* Runner
    agent_instances,      \* role -> agent, filled by Runner.__init__
    runs,                 \* the number of calls of Runner.run so far
    query,                \* the argument of the last call of run
    run_calls,            \* what the last run asked of the planner and the orchestrator
    run_exception,        \* the exception the last run caught, if any
    run_outcome           \* what the last run returned

runnerVars == <<agent_instances, runs, query, run_calls, run_exception, run_outcome>>

VARIABLES
    \* OutlineTool.create_or_update_document
    doc_title,            \* the argument title
    doc_content,          \* the argument content
    doc_kwargs,           \* the keyword arguments passed on to the operation
    existing_document,    \* what _search_document_by_title returned
    posts,                \* the requests.post calls of the last call, in order
    dpc,                  \* idle, searching, updating, publishing, done
    doc_outcome           \* what the last call returned or raised

outlineVars == <<doc_title, doc_content, doc_kwargs, existing_document, posts, dpc, doc_outcome>>

VARIABLES
    \* IntelligenceAgent.generate_report
    report_topic,         \* research_output.topic
    agent_max_retries,    \* what the agent answers for max_retries
    ipc,                  \* idle, calling (inside call_llm), returned, raised
    iattempt,             \* the attempts that failed in the call_llm under way
    intel_calls,          \* the call_llm invocations that ended, in order
    report_outcome        \* what generate_report returned or raised

intelVars == <<report_topic, agent_max_retries, ipc, iattempt, intel_calls, report_outcome>>

VARIABLES
    \* CrewAITool._run
    run_kwargs,           \* the keyword arguments of the last _run
    args_schema,          \* the args schema of the tool: NoArgs, or its model_fields
    command_name,         \* the command the tool is bound to, empty if none
    execute_calls,        \* the calls of the wrapped execute in the last _run
    tool_outcome          \* what the last _run returned or raised

shimVars == <<run_kwargs, args_schema, command_name, execute_calls, tool_outcome>>

\* the variables of the tools and of the agents that stand alone
toolVars == <<outlineVars, intelVars, shimVars>>

\* the variables of the engine, the agents of the workflow and the runner
coreVars == <<engineVars, jsonVars, researchVars, plannerVars, orchVars, runnerVars>>

vars == <<engineVars, jsonVars, researchVars, plannerVars, orchVars, runnerVars, toolVars>>

\* the variables other than those of one component
exceptEngine == <<jsonVars, researchVars, plannerVars, orchVars, runnerVars, toolVars>>
exceptJson == <<engineVars, researchVars, plannerVars, orchVars, runnerVars, toolVars>>
exceptResearch == <<engineVars, jsonVars, plannerVars, orchVars, runnerVars, toolVars>>
exceptPlanner == <<engineVars, jsonVars, researchVars, orchVars, runnerVars, toolVars>>
exceptOrch == <<engineVars, jsonVars, researchVars, plannerVars, runnerVars, toolVars>>
exceptRunner == <<engineVars, jsonVars, researchVars, plannerVars, toolVars>>
exceptOutline == <<coreVars, intelVars, shimVars>>
exceptIntel == <<coreVars, outlineVars, shimVars>>
exceptShim == <<coreVars, outlineVars, intelVars>>

JsonIdle ==
    /\ jx = JLit("null")
    /\ jtext = <<>>
    /\ jshape = <<>>
    /\ jout = Pending

ResearchIdle ==
    /\ research_topic = <<>>
    /\ max_iterations = 0
    /\ rpc = "idle"
    /\ iteration = 0
    /\ history = <<>>
    /\ results = <<>>
    /\ summary = JStr(<<>>)
    /\ research_calls = <<>>
    /\ tool_calls = <<>>
    /\ research_outcome = Pending

PlannerIdle ==
    /\ goal = <<>>
    /\ ppc = "idle"
    /\ planner_calls = <<>>
    /\ plan_outcome = Pending

\* CrewAIOrchestrator.__init__
OrchEmpty ==
    /\ crewai_agents = <<>>
    /\ crewai_tasks = <<>>
    /\ agent_map = <<>>
    /\ orch_calls = <<>>

RunnerIdle ==
    /\ agent_instances = <<>>
    /\ runs = 0
    /\ query = <<>>
    /\ run_calls = <<>>
    /\ run_exception = NoException
    /\ run_outcome = Pending

\* OutlineTool before create_or_update_document is called
OutlineIdle ==
    /\ doc_title = <<>>
    /\ doc_content = <<>>
    /\ doc_kwargs = <<>>
    /\ existing_document = JLit("null")
    /\ posts = <<>>
    /\ dpc = "idle"
    /\ doc_outcome = Pending

\* IntelligenceAgent before generate_report is called
IntelIdle ==
    /\ report_topic = <<>>
    /\ agent_max_retries = 1
    /\ ipc = "idle"
    /\ iattempt = 0
    /\ intel_calls = <<>>
    /\ report_outcome = Pending

\* the schema of a tool without arguments
NoArgs == [noargs |-> TRUE, model_fields |-> {}]

\* a CrewAITool of a tool without schema and command, before _run is called
ShimIdle ==
    /\ run_kwargs = <<>>
    /\ args_schema = NoArgs
    /\ command_name = <<>>
    /\ execute_calls = <<>>
    /\ tool_outcome = Pending

ToolsIdle == OutlineIdle /\ IntelIdle /\ ShimIdle

\* the components other than the engine, the JSON extraction and the
\* research agent are not in use
OthersIdle == PlannerIdle /\ OrchEmpty /\ RunnerIdle /\ ToolsIdle

(***************************************************************************)
(* The operations.                                                         *)
(***************************************************************************)
Init ==
    /\ max_retries \in 0..MaxRetries
    /\ relevance_threshold \in Thresholds
    /\ entry = "none"
    /\ prompt = RawPrompt
    /\ search_results = <<>>
    /\ pc = "idle"
    /\ attempt = 0
    /\ last_exception = NoException
    /\ response_text = NoneText
    /\ call_count = 0
    /\ llm_history = <<>>
    /\ events = <<>>
    /\ log = <<>>
    /\ llm_result = Pending
    /\ outcome = Pending
    /\ JsonIdle
    /\ ResearchIdle
    /\ OthersIdle

\* a loop that runs one attempt too many
InRangeOneMore(a) == a <= max_retries

\* for attempt in range(self.max_retries)
InRange(a) == a < max_retries

\* a backoff that is also slept after the last attempt
BackoffAfterEveryFailure(a) == a < max_retries

\* if attempt < self.max_retries - 1
BackoffDue(a) == a < max_retries - 1

\* entering __call_llm from the public method m; an empty range raises at once
Start(m, p, srs) ==
    /\ pc = "idle"
    /\ entry' = m
    /\ prompt' = p
    /\ search_results' = srs
    /\ IF InRange(0)
       THEN /\ pc' = "loop"
            /\ UNCHANGED <<llm_result, outcome>>
       ELSE /\ pc' = "raised"
            /\ llm_result' = Raised(ErrorHandler(m, last_exception))
            /\ outcome' = Raised(ErrorHandler(m, last_exception))
    /\ UNCHANGED <<max_retries, relevance_threshold, attempt, last_exception, response_text,
                   call_count, llm_history, events, log>>
    /\ UNCHANGED exceptEngine

call_llm == Start("call_llm", RawPrompt, <<>>)

llm_json == Start("llm_json", RawPrompt, <<>>)

\* a selector that returns at once when there are no candidates
select_urls_short_circuit ==
    \E n \in 0..MaxCandidates :
        IF n = 0
        THEN /\ pc = "idle"
             /\ entry' = "select_urls"
             /\ prompt' = build_selection_prompt(<<>>)
             /\ search_results' = <<>>
             /\ pc' = "returned"
             /\ outcome' = Returned(<<>>)
             /\ UNCHANGED <<max_retries, relevance_threshold, attempt, last_exception,
                            response_text, call_count, llm_history, events, log, llm_result>>
             /\ UNCHANGED exceptEngine
        ELSE Start("select_urls", build_selection_prompt(Candidates(n)), Candidates(n))

\* select_urls: the prompt lists the candidates, then _get_relevance_scores
\* runs llm_json on it
select_urls ==
    \E n \in 0..MaxCandidates :
        Start("select_urls", build_selection_prompt(Candidates(n)), Candidates(n))

\* an except branch that keeps the first exception instead of the last
FailedKeepsFirst(e, rt) ==
    LET kept == IF last_exception = NoException THEN e ELSE last_exception
    IN  /\ last_exception' = kept
        /\ log' = Append(log, [max_retries |-> max_retries, attempt |-> attempt + 1,
                               response_text |-> rt, error |-> Str(e)])
        /\ events' = events \o <<CallEvent>>
                            \o (IF BackoffDue(attempt) THEN <<SleepEvent(Delay(attempt))>> ELSE <<>>)
        /\ IF InRange(attempt + 1)
           THEN /\ attempt' = attempt + 1
                /\ pc' = "loop"
                /\ UNCHANGED <<llm_result, outcome>>
           ELSE /\ attempt' = attempt
                /\ pc' = "raised"
                /\ llm_result' = Raised(ErrorHandler(entry, kept))
                /\ outcome' = Raised(ErrorHandler(entry, kept))

\* the except branch of __call_llm for the exception e, rt the response text
\* the warning reports; then the next attempt, or the error handler's error
Failed(e, rt) ==
    /\ last_exception' = e
    /\ log' = Append(log, [max_retries |-> max_retries, attempt |-> attempt + 1,
                           response_text |-> rt, error |-> Str(e)])
    /\ events' = events \o <<CallEvent>>
                        \o (IF BackoffDue(attempt) THEN <<SleepEvent(Delay(attempt))>> ELSE <<>>)
    /\ IF InRange(attempt + 1)
       THEN /\ attempt' = attempt + 1
            /\ pc' = "loop"
            /\ UNCHANGED <<llm_result, outcome>>
       ELSE /\ attempt' = attempt
            /\ pc' = "raised"
            /\ llm_result' = Raised(ErrorHandler(entry, e))
            /\ outcome' = Raised(ErrorHandler(entry, e))

\* a success that stores the result but goes on with the loop
ReturnResultAndGoOn(r) ==
    LET d == Deliver(entry, r.val)
    IN  /\ llm_result' = r
        /\ outcome' = d
        /\ events' = Append(events, CallEvent)
        /\ IF InRange(attempt + 1)
           THEN pc' = "loop" /\ attempt' = attempt + 1
           ELSE pc' = (IF d.st = "returned" THEN "returned" ELSE "raised") /\ attempt' = attempt
        /\ UNCHANGED <<last_exception, log>>

\* return response_handler(response_text) for the value r the handler
\* returned: the invocation ends, the public method delivers its result
ReturnResult(r) ==
    LET d == Deliver(entry, r.val)
    IN  /\ llm_result' = r
        /\ outcome' = d
        /\ pc' = IF d.st = "returned" THEN "returned" ELSE "raised"
        /\ events' = Append(events, CallEvent)
        /\ UNCHANGED <<attempt, last_exception, log>>

\* a response handler called outside the try block: its exception escapes
HandlerFailedEscapes(e, text) ==
    /\ last_exception' = e
    /\ events' = Append(events, CallEvent)
    /\ pc' = "raised"
    /\ llm_result' = Raised(e)
    /\ outcome' = Raised(e)
    /\ UNCHANGED <<attempt, log>>

\* the response handler raised e on the response text: the same except
\* branch as for a failure of llm.call
HandlerFailed(e, text) == Failed(e, SomeText(text))

\* one attempt in which llm.call raises
LlmCallRaises ==
    /\ pc = "loop"
    /\ \E e \in LLMFailures :
        /\ call_count' = call_count + 1
        /\ llm_history' = Append(llm_history, LlmRaise(prompt, e, NoAnswer))
        /\ response_text' = response_text
        /\ Failed(e, response_text)
    /\ UNCHANGED <<max_retries, relevance_threshold, entry, prompt, search_results>>
    /\ UNCHANGED exceptEngine

\* one attempt in which llm.call returns: the response handler either
\* returns, which ends the invocation, or raises, which fails the attempt
LlmCallReturns ==
    /\ pc = "loop"
    /\ \E answer \in LlmResponses :
        /\ call_count' = call_count + 1
        /\ llm_history' = Append(llm_history, LlmReturn(prompt, answer))
        /\ response_text' = SomeText(answer.text)
        /\ LET r == HandledResponse[entry][answer.text]
           IN  IF r.st = "returned" THEN ReturnResult(r)
               ELSE HandlerFailed(r.exc, answer.text)
    /\ UNCHANGED <<max_retries, relevance_threshold, entry, prompt, search_results>>
    /\ UNCHANGED exceptEngine

Next == call_llm \/ llm_json \/ select_urls \/ LlmCallRaises \/ LlmCallReturns

Spec == Init /\ [][Next]_vars

(***************************************************************************)
(* to_json_object on its own: a JSON value is serialized (or prose is      *)
(* written instead), the text is optionally wrapped and surrounded, and    *)
(* to_json_object is applied to it.  jshape records how jtext was built.   *)
(***************************************************************************)
FenceString == Fence(L_json, <<"7">>)

JsonAtoms == {JNum(0), JNum(12), JStr(<<>>), JStr(FenceString),
              JStr(<<QUOTE, BSLASH, LF>>), JLit("null"), JLit("true")}

JsonKeys == <<<<"k">>, FenceString>>

SeqsUpTo(S, n) == UNION {[1..m -> S] : m \in 0..n}

\* the objects over JsonKeys with at most n members, keys in either order
ObjectsUpTo(S, n) ==
    {JObj(<<>>)}
    \cup (IF n >= 1 THEN {JObj(<<Member(JsonKeys[i], x)>>) : i \in 1..2, x \in S} ELSE {})
    \cup (IF n >= 2 THEN {JObj(<<Member(JsonKeys[i], x), Member(JsonKeys[3 - i], y)>>) :
                            i \in 1..2, x \in S, y \in S}
          ELSE {})

JsonFlat == {JArr(vs) : vs \in SeqsUpTo(JsonAtoms, MaxElems)} \cup ObjectsUpTo(JsonAtoms, MaxElems)

\* arrays and objects, one level of nesting
JsonInputs ==
    JsonFlat
    \cup {JArr(<<x>>) : x \in JsonFlat}
    \cup {JObj(<<Member(JsonKeys[1], x)>>) : x \in JsonFlat}

EngineIdle ==
    /\ max_retries = 1
    /\ relevance_threshold = 5
    /\ entry = "none"
    /\ prompt = RawPrompt
    /\ search_results = <<>>
    /\ pc = "idle"
    /\ attempt = 0
    /\ last_exception = NoException
    /\ response_text = NoneText
    /\ call_count = 0
    /\ llm_history = <<>>
    /\ events = <<>>
    /\ log = <<>>
    /\ llm_result = Pending
    /\ outcome = Pending

InitJson ==
    /\ EngineIdle
    /\ ResearchIdle
    /\ OthersIdle
    /\ jx \in JsonInputs
    /\ jtext = <<>>
    /\ jshape = <<>>
    /\ jout = Pending

\* json.dumps(jx)
Serialize ==
    /\ jshape = <<>>
    /\ jtext' = Dumps(jx)
    /\ jshape' = <<"dumps">>
    /\ UNCHANGED <<jx, jout>>
    /\ UNCHANGED exceptJson

\* prose in place of a value
WriteProse ==
    /\ jshape = <<>>
    /\ jx' = JLit("null")
    /\ jtext' = Prose
    /\ jshape' = <<"prose">>
    /\ UNCHANGED jout
    /\ UNCHANGED exceptJson

\* a fenced block around the text, labelled json, python or not at all
WrapFence ==
    /\ Len(jshape) = 1
    /\ jout = Pending
    /\ \E w \in {[label |-> L_json, op |-> "fence:json"],
                 [label |-> L_python, op |-> "fence:python"],
                 [label |-> <<>>, op |-> "fence:none"]} :
        /\ jtext' = Fence(w.label, jtext)
        /\ jshape' = Append(jshape, w.op)
    /\ UNCHANGED <<jx, jout>>
    /\ UNCHANGED exceptJson

\* the text between ```json and ``` on one line, with spaces and no newline
WrapInline ==
    /\ Len(jshape) = 1
    /\ jout = Pending
    /\ jtext' = <<TICK, TICK, TICK>> \o L_json \o <<" ">> \o jtext \o <<" ", TICK, TICK, TICK>>
    /\ jshape' = Append(jshape, "inline")
    /\ UNCHANGED <<jx, jout>>
    /\ UNCHANGED exceptJson

\* white space, or a line of prose, before and after the text
Surround ==
    /\ Len(jshape) \in {1, 2}
    /\ jshape[Len(jshape)] \notin {"ws", "text"}
    /\ jout = Pending
    /\ \/ /\ jtext' = <<LF, " ">> \o jtext \o <<" ", LF>>
          /\ jshape' = Append(jshape, "ws")
       \/ /\ jtext' = <<"o", "k", ":", LF>> \o jtext \o <<LF, "o", "k">>
          /\ jshape' = Append(jshape, "text")
    /\ UNCHANGED <<jx, jout>>
    /\ UNCHANGED exceptJson

Extract ==
    /\ jshape # <<>>
    /\ jout = Pending
    /\ jout' = to_json_object(jtext)
    /\ UNCHANGED <<jx, jtext, jshape>>
    /\ UNCHANGED exceptJson

NextJson == Serialize \/ WriteProse \/ WrapFence \/ WrapInline \/ Surround \/ Extract

SpecJson == InitJson /\ [][NextJson]_vars

(***************************************************************************)
(* ResearchAgent.run_research: the model is asked for one action per       *)
(* iteration; an action names a tool and its arguments, or finishes.       *)
(***************************************************************************)
K_tool_name == <<"t", "o", "o", "l", "_", "n", "a", "m", "e">>
K_arguments == <<"a", "r", "g", "u", "m", "e", "n", "t", "s">>
K_summary == <<"s", "u", "m", "m", "a", "r", "y">>
K_query == <<"q", "u", "e", "r", "y">>
K_tool == <<"t", "o", "o", "l">>
K_result == <<"r", "e", "s", "u", "l", "t">>

T_finish == <<"f", "i", "n", "i", "s", "h">>
T_search_tool == <<"s", "e", "a", "r", "c", "h", "_", "t", "o", "o", "l">>
T_scrape_tool == <<"s", "c", "r", "a", "p", "e", "_", "t", "o", "o", "l">>
T_invalid_tool == <<"i", "n", "v", "a", "l", "i", "d", "_", "t", "o", "o", "l">>
T_invalid_action == <<"i", "n", "v", "a", "l", "i", "d", "_", "a", "c", "t", "i", "o", "n">>

FailedToScrape == <<"F", "a", "i", "l", "e", "d", " ", "t", "o", " ", "s", "c", "r", "a", "p", "e">>

\* sub in cs, for a text sub that is not empty
Contains(cs, sub) == \E i \in 1..Len(cs) : StartsAt(cs, i, sub)

\* d.get(key, default)
DictGet(d, key, default) == IF HasKey(d, key) THEN Get(d, key) ELSE default

\* the truth value of a JSON value in a condition
Truthy(x) ==
    CASE x.t = "num" -> x.v # 0
      [] x.t = "lit" -> x.v = "true"
      [] OTHER -> x.v # <<>>

\* a dispatch that takes an unknown tool name for the search tool
InterpretUnknownAsSearch(r) ==
    LET Kind(name, args) == [k |-> name, arguments |-> args]
        none == JObj(<<>>)
    IN  IF r.st = "raised" THEN Kind("invalid_action", none)
        ELSE IF r.val.t # "obj" THEN Kind("invalid_action", none)
        ELSE LET raw_name == DictGet(r.val, K_tool_name, JStr(<<>>))
                 arguments == DictGet(r.val, K_arguments, JObj(<<>>))
             IN  IF raw_name.t # "str" THEN Kind("invalid_action", none)
                 ELSE LET tool_name == Strip(raw_name.v)
                      IN  IF tool_name = T_finish
                          THEN IF arguments.t = "obj" THEN Kind("finish", arguments)
                               ELSE Kind("invalid_action", none)
                          ELSE IF tool_name = T_search_tool
                          THEN IF arguments.t = "obj" THEN Kind("search_tool", arguments)
                               ELSE Kind("type_error", arguments)
                          ELSE IF tool_name = T_scrape_tool
                          THEN IF arguments.t = "obj" THEN Kind("scrape_tool", arguments)
                               ELSE Kind("type_error", arguments)
                          ELSE IF arguments.t = "obj" THEN Kind("search_tool", arguments)
                          ELSE Kind("invalid_tool", arguments)

\* The try block of run_research up to the choice of the branch, for the
\* outcome r of to_json_object(response_text).  A JSONDecodeError, and the
\* AttributeError of .get or .strip on a value that has no such method, are
\* caught: invalid_action.  The ** of a tool call on arguments that are no
\* mapping is a TypeError, which is not caught.
Interpret(r) ==
    LET Kind(name, args) == [k |-> name, arguments |-> args]
        none == JObj(<<>>)
    IN  IF r.st = "raised" THEN Kind("invalid_action", none)
        ELSE IF r.val.t # "obj" THEN Kind("invalid_action", none)
        ELSE LET raw_name == DictGet(r.val, K_tool_name, JStr(<<>>))
                 arguments == DictGet(r.val, K_arguments, JObj(<<>>))
             IN  IF raw_name.t # "str" THEN Kind("invalid_action", none)
                 ELSE LET tool_name == Strip(raw_name.v)
                      IN  IF tool_name = T_finish
                          THEN IF arguments.t = "obj" THEN Kind("finish", arguments)
                               ELSE Kind("invalid_action", none)
                          ELSE IF tool_name = T_search_tool
                          THEN IF arguments.t = "obj" THEN Kind("search_tool", arguments)
                               ELSE Kind("type_error", arguments)
                          ELSE IF tool_name = T_scrape_tool
                          THEN IF arguments.t = "obj" THEN Kind("scrape_tool", arguments)
                               ELSE Kind("type_error", arguments)
                          ELSE Kind("invalid_tool", arguments)

\* the records run_research appends to history
HistoryEntry(tool, arguments, result) ==
    JObj(<<Member(K_tool, JStr(tool)), Member(K_arguments, arguments), Member(K_result, result)>>)

InvalidToolEntry(arguments) ==
    HistoryEntry(T_invalid_tool, arguments, JStr(<<"I", "n", "v", "a", "l", "i", "d", " ", "t", "o", "o", "l", " ", "n", "a", "m", "e", ".">>))

InvalidActionEntry ==
    JObj(<<Member(K_tool, JStr(T_invalid_action)),
           Member(K_result, JStr(<<"I", "n", "v", "a", "l", "i", "d", " ", "a", "c", "t", "i", "o", "n", " ", "f", "o", "r", "m", "a", "t", ".">>))>>)

ValidationError(what) == Exc("ValidationError", <<Lit(what)>>)

\* ResearchResult(url=..., content=...): both fields are required strings
ResearchResult(url, content) ==
    IF url.t = "str" /\ content.t = "str"
    THEN Returned([url |-> url.v, content |-> content.v])
    ELSE Raised(ValidationError("Input should be a valid string"))

\* ResearchOutput with the keyword arguments given: topic, summary, results
\* and history are required fields, none of them has a default
ResearchOutput(given) ==
    IF ~({"topic", "summary", "results", "history"} \subseteq DOMAIN given)
    THEN Raised(ValidationError("Field required"))
    ELSE IF given.summary.t # "str"
    THEN Raised(ValidationError("Input should be a valid string"))
    ELSE Returned(given)

\* Bound of the research loop.
MaxIterations == 3

\* the texts the model may answer with when asked for an action
Act(name, arguments) ==
    JObj(<<Member(K_tool_name, JStr(name)), Member(K_arguments, arguments)>>)

ScrapeUrls == {Url(1), Url(2)}

ResearchActions ==
    {Act(T_search_tool, JObj(<<Member(K_query, JStr(<<"q">>))>>)),
     Act(T_search_tool, JArr(<<JNum(1)>>)),
     Act(T_scrape_tool, JObj(<<>>)),
     Act(T_finish, JObj(<<Member(K_summary, JStr(<<"d", "o", "n", "e">>))>>)),
     Act(T_finish, JObj(<<Member(K_summary, JStr(<<>>))>>)),
     Act(T_finish, JStr(<<"d", "o", "n", "e">>)),
     JObj(<<Member(K_tool_name, JStr(T_finish))>>),
     JObj(<<Member(K_tool_name, JNum(1))>>),
     Act(<<"f", "l", "y">>, JObj(<<>>)),
     JArr(<<JNum(1)>>)}
    \cup {Act(T_scrape_tool, JObj(<<Member(K_url, JStr(u))>>)) : u \in ScrapeUrls}

ResearchResponses ==
    {Dumps(x) : x \in ResearchActions}
    \cup {Fence(L_json, Dumps(Act(<<" ", "f", "i", "n", "i", "s", "h", " ">>, JObj(<<Member(K_summary, JStr(<<"f", "e", "n", "c", "e", "d">>))>>)))),
          Prose}

\* action = to_json_object(response_text) and the branch taken on it, for
\* each text the model may answer with
ActionOf == [text \in ResearchResponses |-> Interpret(to_json_object(text))]

SummaryResponses == {<<"s", "u", "m">>}

\* what the tools do: search returns a list of results or raises; scrape
\* returns the page text, a text with the failure sentinel, or nothing, or raises
SearchOutcomes ==
    {Returned(JArr(<<JObj(<<Member(K_url, JStr(Url(1)))>>)>>)),
     Raised(Exc("Exception", <<Lit("search failed")>>))}

ScrapeOutcomes ==
    {Returned(JStr(<<"p", "a", "g", "e">>)),
     Returned(JStr(<<"F", "a", "i", "l", "e", "d", " ", "t", "o", " ", "s", "c", "r", "a", "p", "e", ".">>)),
     Returned(JStr(<<>>)),
     Raised(Exc("Exception", <<Lit("scrape failed")>>))}

Topics == {<<"t">>}

\* self._prompt_template.format(topic=topic, history=json.dumps(history))
ResearchPrompt ==
    [template |-> "agents-research", topic |-> research_topic,
     history |-> Dumps(JArr(history))]

\* the forced summary prompt
SummaryPrompt ==
    [template |-> "Based on the following research history, please provide a summary of your findings:",
     topic |-> <<>>,
     history |-> Dumps(JArr(history))]

ResearchCall(p, kind, outcome_of_call) ==
    [st |-> outcome_of_call.st, exc |-> outcome_of_call.exc, prompt |-> p,
     kind |-> kind, answer |-> outcome_of_call.val]

ToolCall(tool, arguments, result) ==
    [result |-> result, iteration |-> iteration + 1, arguments |-> arguments, tool |-> tool]

\* run_research(topic, max_iterations): the locals are set up and the loop
\* is entered, or skipped when range(max_iterations) is empty
run_research ==
    /\ rpc = "idle"
    /\ \E t \in Topics, n \in 0..MaxIterations :
        /\ research_topic' = t
        /\ max_iterations' = n
        /\ rpc' = IF n > 0 THEN "loop" ELSE "after_loop"
    /\ history' = <<>>
    /\ results' = <<>>
    /\ summary' = JStr(<<>>)
    /\ iteration' = 0
    /\ UNCHANGED <<research_calls, tool_calls, research_outcome>>
    /\ UNCHANGED exceptResearch

\* the end of an iteration that did not leave the loop
Continue(h, rs, tcs) ==
    /\ history' = h
    /\ results' = rs
    /\ tool_calls' = tcs
    /\ rpc' = IF iteration + 1 < max_iterations THEN "loop" ELSE "after_loop"
    /\ UNCHANGED <<summary, research_outcome>>

\* an exception that no except clause of run_research catches
Abort(e, tcs) ==
    /\ tool_calls' = tcs
    /\ rpc' = "raised"
    /\ research_outcome' = Raised(e)
    /\ UNCHANGED <<history, results, summary>>

\* a finish action that takes the summary and goes on with the loop
FinishAndGoOn(arguments) ==
    /\ summary' = DictGet(arguments, K_summary, JStr(<<>>))
    /\ rpc' = IF iteration + 1 < max_iterations THEN "loop" ELSE "after_loop"
    /\ UNCHANGED <<history, results, tool_calls, research_outcome>>

\* if tool_name == "finish": the summary is taken and the loop is left
Finish(arguments) ==
    /\ summary' = DictGet(arguments, K_summary, JStr(<<>>))
    /\ rpc' = "after_loop"
    /\ UNCHANGED <<history, results, tool_calls, research_outcome>>

\* if tool_name == "search_tool"
Search(arguments) ==
    \E o \in SearchOutcomes :
        LET tcs == Append(tool_calls, ToolCall(T_search_tool, arguments, o))
        IN  IF o.st = "raised" THEN Abort(o.exc, tcs)
            ELSE Continue(Append(history, HistoryEntry(T_search_tool, arguments, o.val)),
                          results, tcs)

\* elif tool_name == "scrape_tool"
Scrape(arguments) ==
    \E o \in ScrapeOutcomes :
        LET tcs == Append(tool_calls, ToolCall(T_scrape_tool, arguments, o))
            rr == ResearchResult(DictGet(arguments, K_url, JLit("null")), o.val)
            h == Append(history, HistoryEntry(T_scrape_tool, arguments, o.val))
        IN  IF o.st = "raised" THEN Abort(o.exc, tcs)
            ELSE IF Truthy(o.val) /\ ~Contains(o.val.v, FailedToScrape)
            THEN IF rr.st = "raised" THEN Abort(rr.exc, tcs)
                 ELSE Continue(h, Append(results, rr.val), tcs)
            ELSE Continue(h, results, tcs)

\* one iteration in which llm.call raises: the exception leaves run_research
ActionCallRaises ==
    /\ rpc = "loop"
    /\ \E e \in LLMFailures :
        /\ research_calls' = Append(research_calls, ResearchCall(ResearchPrompt, "action", Raised(e)))
        /\ Abort(e, tool_calls)
    /\ iteration' = iteration + 1
    /\ UNCHANGED <<research_topic, max_iterations>>
    /\ UNCHANGED exceptResearch

\* one iteration in which llm.call returns a text: the body of the loop
ActionCallReturns ==
    /\ rpc = "loop"
    /\ \E text \in ResearchResponses :
        /\ research_calls' = Append(research_calls,
                                    ResearchCall(ResearchPrompt, "action", Returned(text)))
        /\ LET action == ActionOf[text]
           IN  CASE action.k = "finish" -> Finish(action.arguments)
                 [] action.k = "search_tool" -> Search(action.arguments)
                 [] action.k = "scrape_tool" -> Scrape(action.arguments)
                 [] action.k = "invalid_tool" ->
                        Continue(Append(history, InvalidToolEntry(action.arguments)),
                                 results, tool_calls)
                 [] action.k = "invalid_action" ->
                        Continue(Append(history, InvalidActionEntry), results, tool_calls)
                 [] action.k = "type_error" ->
                        Abort(Exc("TypeError", <<Lit("argument after ** must be a mapping")>>),
                              tool_calls)
    /\ iteration' = iteration + 1
    /\ UNCHANGED <<research_topic, max_iterations>>
    /\ UNCHANGED exceptResearch

\* if not summary: the summary call raises
SummaryCallRaises ==
    /\ rpc = "after_loop"
    /\ ~Truthy(summary)
    /\ \E e \in LLMFailures :
        /\ research_calls' = Append(research_calls, ResearchCall(SummaryPrompt, "summary", Raised(e)))
        /\ Abort(e, tool_calls)
    /\ UNCHANGED <<research_topic, max_iterations, iteration>>
    /\ UNCHANGED exceptResearch

\* after the loop: the summary is asked for if there is none, and
\* ResearchOutput(topic=topic, summary=summary, results=results) is built
Conclude ==
    /\ rpc = "after_loop"
    /\ \E text \in SummaryResponses :
        LET forced == ~Truthy(summary)
            s == IF forced THEN JStr(text) ELSE summary
            out == ResearchOutput([topic |-> research_topic, results |-> results, summary |-> s])
        IN  /\ summary' = s
            /\ research_calls' = IF forced
                                 THEN Append(research_calls,
                                             ResearchCall(SummaryPrompt, "summary", Returned(text)))
                                 ELSE research_calls
            /\ research_outcome' = out
            /\ rpc' = out.st
    /\ UNCHANGED <<research_topic, max_iterations, iteration, history, results, tool_calls>>
    /\ UNCHANGED exceptResearch

InitResearch ==
    /\ EngineIdle
    /\ JsonIdle
    /\ ResearchIdle
    /\ OthersIdle

NextResearch ==
    run_research \/ ActionCallRaises \/ ActionCallReturns \/ SummaryCallRaises \/ Conclude

SpecResearch == InitResearch /\ [][NextResearch]_vars

(***************************************************************************)
(* PlannerAgent.generate_plan: one call of the model per attempt, the      *)
(* response parsed into a Plan, every exception answered by another        *)
(* attempt.                                                                *)
(***************************************************************************)
K_goal == <<"g", "o", "a", "l">>
K_tasks == <<"t", "a", "s", "k", "s">>
K_task_id == <<"t", "a", "s", "k", "_", "i", "d">>
K_description == <<"d", "e", "s", "c", "r", "i", "p", "t", "i", "o", "n">>
K_expected_output == <<"e", "x", "p", "e", "c", "t", "e", "d", "_", "o", "u", "t", "p", "u", "t">>
K_agent == <<"a", "g", "e", "n", "t">>
K_context == <<"c", "o", "n", "t", "e", "x", "t">>
K_tools == <<"t", "o", "o", "l", "s">>

\* a list[int] or list[str] field of Task with default []: the elements of
\* the array given, or a ValidationError
ListField(x, key, type) ==
    IF ~HasKey(x, key) THEN Returned(<<>>)
    ELSE LET l == Get(x, key)
         IN  IF l.t = "arr" /\ \A j \in 1..Len(l.v) : l.v[j].t = type
             THEN Returned([j \in 1..Len(l.v) |-> l.v[j].v])
             ELSE Raised(ValidationError("Input should be a valid list"))

\* Task: task_id, description, expected_output and agent are required,
\* context and tools default to the empty list
Task(x) ==
    IF x.t # "obj" THEN Raised(ValidationError("Input should be a valid dictionary"))
    ELSE IF \E key \in {K_task_id, K_description, K_expected_output, K_agent} : ~HasKey(x, key)
    THEN Raised(ValidationError("Field required"))
    ELSE IF Get(x, K_task_id).t # "num"
    THEN Raised(ValidationError("Input should be a valid integer"))
    ELSE IF \E key \in {K_description, K_expected_output, K_agent} : Get(x, key).t # "str"
    THEN Raised(ValidationError("Input should be a valid string"))
    ELSE IF ListField(x, K_context, "num").st = "raised" THEN ListField(x, K_context, "num")
    ELSE IF ListField(x, K_tools, "str").st = "raised" THEN ListField(x, K_tools, "str")
    ELSE Returned([task_id |-> Get(x, K_task_id).v,
                   description |-> Get(x, K_description).v,
                   expected_output |-> Get(x, K_expected_output).v,
                   agent |-> Get(x, K_agent).v,
                   context |-> ListField(x, K_context, "num").val,
                   tools |-> ListField(x, K_tools, "str").val])

\* Plan with the keyword arguments of plan_data: goal and tasks are required,
\* other keys are ignored
Plan(plan_data) ==
    IF ~HasKey(plan_data, K_goal) \/ ~HasKey(plan_data, K_tasks)
    THEN Raised(ValidationError("Field required"))
    ELSE LET g == Get(plan_data, K_goal)
             ts == Get(plan_data, K_tasks)
         IN  IF g.t # "str" THEN Raised(ValidationError("Input should be a valid string"))
             ELSE IF ts.t # "arr" THEN Raised(ValidationError("Input should be a valid list"))
             ELSE IF \E j \in 1..Len(ts.v) : Task(ts.v[j]).st = "raised"
             THEN Raised(ValidationError("tasks"))
             ELSE Returned([goal |-> g.v, tasks |-> [j \in 1..Len(ts.v) |-> Task(ts.v[j]).val]])

FailedToParse == Exc("ValueError", <<Lit("Failed to parse LLM response into a valid plan.")>>)

\* a parse that trusts the goal of the response
parse_response_keeps_goal(text, g) ==
    LET plan_data == to_json_object(text)
    IN  IF plan_data.st = "raised" THEN Raised(FailedToParse)
        ELSE IF plan_data.val.t # "obj"
        THEN Raised(Exc("TypeError", <<Lit("object does not support item assignment")>>))
        ELSE LET plan == Plan(plan_data.val)
             IN  IF plan.st = "raised" THEN Raised(FailedToParse) ELSE plan

\* _parse_response: the JSON of the response with its goal overwritten, as a
\* Plan.  JSONDecodeError and ValidationError become a ValueError; the item
\* assignment on a value that is no dict is a TypeError.
parse_response(text, g) ==
    LET plan_data == to_json_object(text)
    IN  IF plan_data.st = "raised" THEN Raised(FailedToParse)
        ELSE IF plan_data.val.t # "obj"
        THEN Raised(Exc("TypeError", <<Lit("object does not support item assignment")>>))
        ELSE LET plan == Plan(JObj(PutMember(plan_data.val.v, K_goal, JStr(g))))
             IN  IF plan.st = "raised" THEN Raised(FailedToParse) ELSE plan

\* _create_prompt: the planning instructions around the goal
create_prompt(g) ==
    [template |-> "As an expert project planner, create a step-by-step plan to achieve the following goal:",
     goal |-> g]

\* the number of model calls the nested _get_plan frames can make before the
\* interpreter's recursion limit is reached (about a thousand frames in a
\* default interpreter; a small number here)
MaxPlannerCalls == 3

Goals == {<<"g">>, <<"h">>}

\* the roles the model may name in a plan
PlanRoles == {<<"S", "e", "n", "i", "o", "r", " ", "R", "e", "s", "e", "a", "r", "c", "h", " ", "A", "n", "a", "l", "y", "s", "t">>, <<"E", "x", "p", "e", "r", "t", " ", "P", "r", "o", "j", "e", "c", "t", " ", "P", "l", "a", "n", "n", "e", "r">>, <<"R", "e", "s", "e", "a", "r", "c", "h", " ", "A", "g", "e", "n", "t">>}

TaskJson(i, role) ==
    JObj(<<Member(K_task_id, JNum(i)),
           Member(K_description, JStr(<<"d", Digits[i + 1]>>)),
           Member(K_expected_output, JStr(<<"e", Digits[i + 1]>>)),
           Member(K_agent, JStr(role)),
           Member(K_context, JArr([j \in 1..(i - 1) |-> JNum(j)])),
           Member(K_tools, JArr(<<>>))>>)

PlanJson(g, ts) == JObj(<<Member(K_goal, JStr(g)), Member(K_tasks, JArr(ts))>>)

\* An answer of the model: the text and whether it is a valid plan, that is
\* a JSON object, fenced or not, with a goal and a list of well-formed tasks
PlannerAnswer(text, valid) == [text |-> text, valid |-> valid]

T1 == TaskJson(1, <<"S", "e", "n", "i", "o", "r", " ", "R", "e", "s", "e", "a", "r", "c", "h", " ", "A", "n", "a", "l", "y", "s", "t">>)
T2 == TaskJson(2, <<"E", "x", "p", "e", "r", "t", " ", "P", "r", "o", "j", "e", "c", "t", " ", "P", "l", "a", "n", "n", "e", "r">>)

PlannerResponses ==
    {PlannerAnswer(Dumps(PlanJson(<<"x">>, <<T1>>)), TRUE),
     PlannerAnswer(Dumps(PlanJson(<<"g">>, <<T1, T2>>)), TRUE),
     PlannerAnswer(Fence(L_json, Dumps(PlanJson(<<"a", "n", "o", "t", "h", "e", "r", " ", "g", "o", "a", "l">>, <<T2>>))), TRUE),
     PlannerAnswer(Dumps(PlanJson(<<"x">>, <<>>)), TRUE),
     PlannerAnswer(Dumps(JObj(<<Member(K_tasks, JArr(<<T1>>))>>)), FALSE),
     PlannerAnswer(Dumps(JObj(<<Member(K_goal, JStr(<<"x">>))>>)), FALSE),
     PlannerAnswer(Dumps(PlanJson(<<"x">>, <<JObj(<<Member(K_task_id, JNum(1))>>)>>)), FALSE),
     PlannerAnswer(Dumps(JArr(<<T1>>)), FALSE),
     PlannerAnswer(Prose, FALSE)}

\* _parse_response(response_text, goal) for each goal and each text the
\* model may answer with
ParsedPlan ==
    [g \in Goals |-> [text \in {a.text : a \in PlannerResponses} |-> parse_response(text, g)]]

\* what the interpreter raises when the frames of the nested _get_plan calls
\* reach its recursion limit
RecursionError == Exc("RecursionError", <<Lit("maximum recursion depth exceeded")>>)

PlannerCall(p, outcome_of_call, valid) ==
    [st |-> outcome_of_call.st, exc |-> outcome_of_call.exc, prompt |-> p,
     answer |-> outcome_of_call.val, valid |-> valid]

\* generate_plan(goal): the prompt is built and _get_plan entered
generate_plan ==
    /\ ppc = "idle"
    /\ \E g \in Goals : goal' = g
    /\ ppc' = "calling"
    /\ UNCHANGED <<planner_calls, plan_outcome>>
    /\ UNCHANGED exceptPlanner

\* _get_plan, llm.call raises: except Exception, and _get_plan again
PlannerCallRaises ==
    /\ ppc = "calling"
    /\ Len(planner_calls) < MaxPlannerCalls
    /\ \E e \in LLMFailures :
        planner_calls' = Append(planner_calls, PlannerCall(create_prompt(goal), Raised(e), FALSE))
    /\ UNCHANGED <<goal, ppc, plan_outcome>>
    /\ UNCHANGED exceptPlanner

\* _get_plan, llm.call returns: the plan parsed from the response is
\* returned; if _parse_response raises, _get_plan again
PlannerCallReturns ==
    /\ ppc = "calling"
    /\ Len(planner_calls) < MaxPlannerCalls
    /\ \E a \in PlannerResponses :
        LET plan == ParsedPlan[goal][a.text]
        IN  /\ planner_calls' = Append(planner_calls,
                                       PlannerCall(create_prompt(goal), Returned(a.text), a.valid))
            /\ IF plan.st = "raised"
               THEN UNCHANGED <<ppc, plan_outcome>>
               ELSE /\ ppc' = "returned"
                    /\ plan_outcome' = plan
    /\ UNCHANGED goal
    /\ UNCHANGED exceptPlanner

\* _get_plan nested as deep as the interpreter allows: the next call in the
\* try block raises RecursionError, the except block's _get_plan raises it
\* again, and no frame below catches what its own except block raises
PlannerRecursionError ==
    /\ ppc = "calling"
    /\ Len(planner_calls) = MaxPlannerCalls
    /\ ppc' = "raised"
    /\ plan_outcome' = Raised(RecursionError)
    /\ UNCHANGED <<goal, planner_calls>>
    /\ UNCHANGED exceptPlanner

InitPlanner ==
    /\ EngineIdle
    /\ JsonIdle
    /\ ResearchIdle
    /\ OthersIdle

NextPlanner ==
    generate_plan \/ PlannerCallRaises \/ PlannerCallReturns \/ PlannerRecursionError

SpecPlanner == InitPlanner /\ [][NextPlanner]_vars

(***************************************************************************)
(* CrewAIOrchestrator.  Agents and tasks are the caller's objects: an      *)
(* agent is known by its identity id(agent), here a number, and stays      *)
(* alive while the orchestrator is in use.  A crewai agent is a new object *)
(* for every add_agent; its id is its place in crewai_agents.              *)
(***************************************************************************)
TextPart(cs) == [s |-> "", k |-> "text", n |-> 0, cs |-> cs]

MaxAgents == 2
MaxOrchCalls == 4

\* the agents the runner creates, and their roles
PlannerAgent == 1
ResearchAgent == 2
KnowledgeAgent == 3
IntelligenceAgent == 4
NoAgent == 0

RunnerRoles ==
    <<<<"E", "x", "p", "e", "r", "t", " ", "P", "r", "o", "j", "e", "c", "t", " ", "P", "l", "a", "n", "n", "e", "r">>, <<"S", "e", "n", "i", "o", "r", " ", "R", "e", "s", "e", "a", "r", "c", "h", " ", "A", "n", "a", "l", "y", "s", "t">>,
      <<"K", "n", "o", "w", "l", "e", "d", "g", "e", " ", "M", "a", "n", "a", "g", "e", "r">>, <<"I", "n", "t", "e", "l", "l", "i", "g", "e", "n", "c", "e", " ", "A", "n", "a", "l", "y", "s", "t">>>>

RoleOf(a) == IF a \in DOMAIN RunnerRoles THEN RunnerRoles[a] ELSE <<"T", "e", "s", "t", " ", "R", "o", "l", "e">>

\* Agent(role=agent.role, ...), the n-th crewai agent made
CrewAgent(n, a) == [role |-> RoleOf(a), id |-> n]

\* an AbstractTask: its description, expected output and agent
AbstractTask(description, expected_output, a) ==
    [description |-> description, expected_output |-> expected_output, agent |-> a]

NoTask == AbstractTask(<<>>, <<>>, NoAgent)

\* Task(description=..., expected_output=..., agent=crewai_agent)
CrewTask(task, crewai_agent) ==
    [description |-> task.description, expected_output |-> task.expected_output,
     agent |-> crewai_agent]

\* d[key] = value and key in d, of a dict
MapPut(d, key, value) == [x \in DOMAIN d \cup {key} |-> IF x = key THEN value ELSE d[x]]

AgentNotFound(task) ==
    Exc("ValueError", <<Lit("Agent for task '"), TextPart(task.description), Lit("' not found.")>>)

\* an add_task that binds a task to no agent instead of refusing it
AddTaskUnchecked(ctasks, amap, task) ==
    IF task.agent \notin DOMAIN amap
    THEN Returned(Append(ctasks, CrewTask(task, CrewAgent(0, task.agent))))
    ELSE Returned(Append(ctasks, CrewTask(task, amap[task.agent])))

\* add_task on the task list ctasks and the agent map amap: the new task
\* list, or the ValueError for an agent that is not in the map
AddTask(ctasks, amap, task) ==
    IF task.agent \notin DOMAIN amap
    THEN Raised(AgentNotFound(task))
    ELSE Returned(Append(ctasks, CrewTask(task, amap[task.agent])))

\* crew.kickoff() is external: it returns a result with the raw text, or raises
KickoffOutcomes ==
    {Returned(<<"f", "i", "n", "a", "l", " ", "a", "n", "s", "w", "e", "r">>),
     Raised(Exc("Exception", <<Lit("kickoff failed")>>))}

\* ExecutionResult(raw_output=raw_output, structured_output=None)
ExecutionResult(raw_output) == [raw_output |-> raw_output, structured_output |-> "None"]

\* Crew(name=..., agents=self.crewai_agents, tasks=self.crewai_tasks)
Crew(cagents, ctasks) == [tasks |-> ctasks, agents |-> cagents]

NoCrew == Crew(<<>>, <<>>)

\* a call of the orchestrator: the operation, its argument, the crew it
\* kicked off, and what it returned or raised
OrchCall(op, a, task, crew, outcome_of_call) ==
    [val |-> outcome_of_call.val, st |-> outcome_of_call.st, exc |-> outcome_of_call.exc,
     op |-> op, agent |-> a, task |-> task, crew |-> crew]

Agents == 1..MaxAgents

OrchTasks ==
    {AbstractTask(d, <<"o", "u", "t">>, a) : d \in {<<"d", "1">>, <<"d", "2">>}, a \in Agents}

\* add_agent(agent): a crewai agent is made of the agent, appended to
\* crewai_agents and entered in agent_map under id(agent); if Agent(...)
\* raises, nothing is changed
add_agent ==
    /\ Len(orch_calls) < MaxOrchCalls
    /\ \E a \in Agents, made \in BOOLEAN :
        LET crewai_agent == CrewAgent(Len(crewai_agents) + 1, a)
        IN  IF made
            THEN /\ crewai_agents' = Append(crewai_agents, crewai_agent)
                 /\ agent_map' = MapPut(agent_map, a, crewai_agent)
                 /\ orch_calls' = Append(orch_calls, OrchCall("add_agent", a, NoTask, NoCrew, Returned(<<>>)))
            ELSE /\ orch_calls' = Append(orch_calls,
                                         OrchCall("add_agent", a, NoTask, NoCrew,
                                                  Raised(ValidationError("Agent"))))
                 /\ UNCHANGED <<crewai_agents, agent_map>>
    /\ UNCHANGED crewai_tasks
    /\ UNCHANGED exceptOrch

\* add_task(task)
add_task ==
    /\ Len(orch_calls) < MaxOrchCalls
    /\ \E task \in OrchTasks :
        LET r == AddTask(crewai_tasks, agent_map, task)
        IN  /\ crewai_tasks' = IF r.st = "raised" THEN crewai_tasks ELSE r.val
            /\ orch_calls' = Append(orch_calls,
                                    OrchCall("add_task", task.agent, task, NoCrew,
                                             IF r.st = "raised" THEN r ELSE Returned(<<>>)))
    /\ UNCHANGED <<crewai_agents, agent_map>>
    /\ UNCHANGED exceptOrch

\* execute(): a crew of the agents and tasks is kicked off; the lists stay
\* as they are
execute ==
    /\ Len(orch_calls) < MaxOrchCalls
    /\ \E o \in KickoffOutcomes :
        orch_calls' = Append(orch_calls,
                             OrchCall("execute", NoAgent, NoTask, Crew(crewai_agents, crewai_tasks),
                                      IF o.st = "raised" THEN o
                                      ELSE Returned(ExecutionResult(o.val))))
    /\ UNCHANGED <<crewai_agents, crewai_tasks, agent_map>>
    /\ UNCHANGED exceptOrch

InitOrch ==
    /\ EngineIdle
    /\ JsonIdle
    /\ ResearchIdle
    /\ OthersIdle

NextOrch == add_agent \/ add_task \/ execute

SpecOrch == InitOrch /\ [][NextOrch]_vars

(***************************************************************************)
(* Runner: the planner's plan is turned into orchestrator tasks, the crew  *)
(* is executed, and every exception becomes the text returned.             *)
(***************************************************************************)
MaxRuns == 2
MaxTasks == 2

Queries == {<<"q", "1">>, <<"q", "2">>}

\* a task of a plan, as the planner's Task model holds it
PlannerTask(i, role) == Task(TaskJson(i, role)).val

\* the task lists of the plans the planner may return
RunnerPlans ==
    UNION {{[i \in 1..n |-> PlannerTask(i, f[i])] : f \in [1..n -> PlanRoles]} : n \in 0..MaxTasks}

\* planner_agent.generate_plan(query): a plan for the query, or the
\* RecursionError of a model that never answers with a plan
PlanOutcomes(q) ==
    {Returned([goal |-> q, tasks |-> ts]) : ts \in RunnerPlans}
    \cup {Raised(RecursionError)}

PlanCall(q, outcome_of_call) ==
    [val |-> outcome_of_call.val, st |-> outcome_of_call.st, exc |-> outcome_of_call.exc,
     query |-> q, op |-> "generate_plan", agent |-> PlannerAgent, task |-> NoTask,
     crew |-> NoCrew]

\* a wrapper that mixes up the two texts of the planner's task
OrchestratorTaskSwapped(planner_task, agent_instance) ==
    AbstractTask(planner_task.expected_output, planner_task.description, agent_instance)

\* OrchestratorTask(planner_task=planner_task, agent_instance=agent_for_task)
OrchestratorTask(planner_task, agent_instance) ==
    AbstractTask(planner_task.description, planner_task.expected_output, agent_instance)

RoleNotFound(planner_task) ==
    Exc("ValueError", <<Lit("Agent with role '"), TextPart(planner_task.agent),
                        Lit("' not found for task '"), TextPart(planner_task.description),
                        Lit("'")>>)

\* what a part of run leaves behind: the exception it ended with, if any,
\* the task list of the orchestrator and the calls made so far
Progress(e, ctasks, calls) == [exc |-> e, tasks |-> ctasks, calls |-> calls]

\* for planner_task in plan.tasks: the agent of the role is looked up and
\* the wrapped task added to the orchestrator; the first exception ends
\* the loop
RECURSIVE AddTasks(_, _, _)
AddTasks(ptasks, ctasks, calls) ==
    IF ptasks = <<>> THEN Progress(NoException, ctasks, calls)
    ELSE LET planner_task == Head(ptasks)
         IN  IF planner_task.agent \notin DOMAIN agent_instances
             THEN Progress(RoleNotFound(planner_task), ctasks, calls)
             ELSE LET orchestrator_task == OrchestratorTask(planner_task,
                                                            agent_instances[planner_task.agent])
                      r == AddTask(ctasks, agent_map, orchestrator_task)
                  IN  IF r.st = "raised"
                      THEN Progress(r.exc, ctasks,
                                    Append(calls, OrchCall("add_task", orchestrator_task.agent,
                                                           orchestrator_task, NoCrew, r)))
                      ELSE AddTasks(Tail(ptasks), r.val,
                                    Append(calls, OrchCall("add_task", orchestrator_task.agent,
                                                           orchestrator_task, NoCrew,
                                                           Returned(<<>>))))

\* a try body that goes on to execute after a task could not be added
WorkflowExecutesAnyway(q, plan, kickoff) ==
    IF plan.st = "raised" THEN Progress(plan.exc, crewai_tasks, <<PlanCall(q, plan)>>)
    ELSE LET added == AddTasks(plan.val.tasks, crewai_tasks, <<PlanCall(q, plan)>>)
             execution_result == IF kickoff.st = "raised" THEN kickoff
                                 ELSE Returned(ExecutionResult(kickoff.val))
         IN  Progress(IF added.exc # NoException THEN added.exc ELSE kickoff.exc, added.tasks,
                      Append(added.calls,
                             OrchCall("execute", NoAgent, NoTask,
                                      Crew(crewai_agents, added.tasks), execution_result)))

\* the body of the try of run, given what the planner and the crew do
Workflow(q, plan, kickoff) ==
    IF plan.st = "raised" THEN Progress(plan.exc, crewai_tasks, <<PlanCall(q, plan)>>)
    ELSE LET added == AddTasks(plan.val.tasks, crewai_tasks, <<PlanCall(q, plan)>>)
             execution_result == IF kickoff.st = "raised" THEN kickoff
                                 ELSE Returned(ExecutionResult(kickoff.val))
         IN  IF added.exc # NoException THEN added
             ELSE Progress(kickoff.exc, added.tasks,
                           Append(added.calls,
                                  OrchCall("execute", NoAgent, NoTask,
                                           Crew(crewai_agents, added.tasks), execution_result)))

\* f"Error during workflow execution: {type(e).__name__}: {e}"
ErrorText(e) ==
    <<Lit("Error during workflow execution: "), Lit(e.type), Lit(": ")>> \o Str(e)

\* run(query): the raw output of the execution, or the text of the
\* exception caught
run ==
    /\ runs < MaxRuns
    /\ \E q \in Queries :
        \E plan \in PlanOutcomes(q), kickoff \in KickoffOutcomes :
            LET done == Workflow(q, plan, kickoff)
            IN  /\ query' = q
                /\ run_calls' = done.calls
                /\ orch_calls' = orch_calls \o Tail(done.calls)
                /\ crewai_tasks' = done.tasks
                /\ run_exception' = done.exc
                /\ run_outcome' = IF done.exc = NoException
                                  THEN Returned(<<TextPart(done.calls[Len(done.calls)].val.raw_output)>>)
                                  ELSE Returned(ErrorText(done.exc))
    /\ runs' = runs + 1
    /\ UNCHANGED <<agent_instances, crewai_agents, agent_map>>
    /\ UNCHANGED exceptRunner

\* Runner.__init__: the orchestrator is made, and the planner, research,
\* knowledge and intelligence agents are entered in agent_instances under
\* their roles and added to the orchestrator
InitRunner ==
    /\ EngineIdle
    /\ JsonIdle
    /\ ResearchIdle
    /\ PlannerIdle
    /\ ToolsIdle
    /\ agent_instances = [r \in {RunnerRoles[a] : a \in DOMAIN RunnerRoles} |->
                             CHOOSE a \in DOMAIN RunnerRoles :
                                /\ RunnerRoles[a] = r
                                /\ \A b \in DOMAIN RunnerRoles : RunnerRoles[b] = r => b <= a]
    /\ crewai_agents = [a \in DOMAIN RunnerRoles |-> CrewAgent(a, a)]
    /\ agent_map = [a \in DOMAIN RunnerRoles |-> CrewAgent(a, a)]
    /\ crewai_tasks = <<>>
    /\ orch_calls = [a \in DOMAIN RunnerRoles |->
                        OrchCall("add_agent", a, NoTask, NoCrew, Returned(<<>>))]
    /\ runs = 0
    /\ query = <<>>
    /\ run_calls = <<>>
    /\ run_exception = NoException
    /\ run_outcome = Pending

NextRunner == run

SpecRunner == InitRunner /\ [][NextRunner]_vars

(***************************************************************************)
(* OutlineTool.  The documentation platform is reached through             *)
(* requests.post; what it answers is an input.  The documents the platform *)
(* lists carry an id and a title.                                          *)
(***************************************************************************)
K_data == <<"d", "a", "t", "a">>
K_document == <<"d", "o", "c", "u", "m", "e", "n", "t">>
K_id == <<"i", "d">>
K_title == <<"t", "i", "t", "l", "e">>
K_text == <<"t", "e", "x", "t">>
K_publish == <<"p", "u", "b", "l", "i", "s", "h">>
K_collectionId == <<"c", "o", "l", "l", "e", "c", "t", "i", "o", "n", "I", "d">>

\* Python's None
None == JLit("null")

\* d.get(key), and d.get(key, default)
DictGetOr(d, key, default) == IF HasKey(d, key) THEN Get(d, key) ELSE default

\* {**members, **kwargs}: a later key takes the place of an earlier one
RECURSIVE Merge(_, _)
Merge(ms, kwargs) ==
    IF kwargs = <<>> THEN ms
    ELSE Merge(PutMember(ms, Head(kwargs).k, Head(kwargs).val), Tail(kwargs))

\* a search that takes the first hit when no title matches exactly
FirstDocumentTitled(documents, title) ==
    IF documents = <<>> THEN None
    ELSE DictGetOr(Head(documents), K_document, JObj(<<>>))

\* the for loop of _search_document_by_title: the document of the first
\* entry whose document has exactly the title, or None
RECURSIVE DocumentTitled(_, _)
DocumentTitled(documents, title) ==
    IF documents = <<>> THEN None
    ELSE LET document == Head(documents)
         IN  IF DictGetOr(DictGetOr(document, K_document, JObj(<<>>)), K_title, None) = JStr(title)
             THEN DictGetOr(document, K_document, None)
             ELSE DocumentTitled(Tail(documents), title)

\* _search_document_by_title, given the JSON of the response
search_document_by_title(data, title) ==
    DocumentTitled(DictGetOr(data, K_data, JArr(<<>>)).v, title)

SearchParams(title) == JObj(<<Member(K_query, JStr(title))>>)

\* the payload of update_document
UpdatePayload(document_id, title, content, kwargs) ==
    JObj(Merge(<<Member(K_id, document_id), Member(K_title, JStr(title)),
                 Member(K_text, JStr(content))>>, kwargs))

\* the payload of publish_document
PublishPayload(title, content, collection_id, kwargs) ==
    JObj(Merge(<<Member(K_title, JStr(title)), Member(K_text, JStr(content)),
                 Member(K_publish, JLit("true")), Member(K_collectionId, JStr(collection_id))>>,
               kwargs))

\* requests.post(url, headers=self.headers, json=payload) and what became of
\* it: the JSON of the response, or the exception of raise_for_status
Post(url, payload, outcome_of_call) ==
    [val |-> outcome_of_call.val, st |-> outcome_of_call.st, exc |-> outcome_of_call.exc,
     url |-> url, json |-> payload]

HTTPError == Exc("HTTPError", <<Lit("500 Server Error: Internal Server Error")>>)

MaxHits == 2

Titles == {<<"A">>, <<"B">>}
Contents == {<<"c", "1">>, <<"c", "2">>}
CollectionId == <<"c", "o", "l">>

\* the keyword arguments of a call
KwargsGiven == {<<>>, <<Member(<<"s", "o", "m", "e", "_", "k", "w", "a", "r", "g">>, JStr(<<"v", "a", "l", "u", "e">>))>>}

\* the titles of the documents of the platform
DocumentTitles == Titles \cup {<<"a">>, <<"A", " ", "B">>}
DocumentIds == {<<"d", "1">>, <<"d", "2">>}

\* an entry of a search response: a document under "document", with some
\* ranking; or an entry without a document
SearchEntries ==
    {JObj(<<Member(<<"r", "a", "n", "k", "i", "n", "g">>, JNum(1)), Member(K_document, JObj(<<Member(K_id, JStr(i)), Member(K_title, JStr(t))>>))>>) :
        i \in DocumentIds, t \in DocumentTitles}
    \cup {JObj(<<Member(<<"r", "a", "n", "k", "i", "n", "g">>, JNum(1))>>)}

\* what documents.search may answer: up to MaxHits entries under "data", or
\* an object without "data"
SearchResponses ==
    {JObj(<<Member(K_data, JArr(es))>>) :
        es \in UNION {[1..n -> SearchEntries] : n \in 0..MaxHits}}
    \cup {JObj(<<Member(<<"o", "k">>, JLit("true"))>>)}

\* what documents.update and documents.create may answer
OperationResponses ==
    {JObj(<<Member(K_data, JObj(<<Member(K_id, JStr(i))>>))>>) : i \in DocumentIds \cup {<<"n", "e", "w", "-", "d", "o", "c">>}}

\* create_or_update_document(title, content, kwargs), up to the search
create_or_update_document ==
    /\ dpc \in {"idle", "done"}
    /\ \E title \in Titles, content \in Contents, kwargs \in KwargsGiven :
        /\ doc_title' = title
        /\ doc_content' = content
        /\ doc_kwargs' = kwargs
    /\ existing_document' = None
    /\ posts' = <<>>
    /\ dpc' = "searching"
    /\ doc_outcome' = Pending
    /\ UNCHANGED exceptOutline

\* _search_document_by_title: raise_for_status raises, and so does
\* create_or_update_document
SearchRaises ==
    /\ dpc = "searching"
    /\ posts' = Append(posts, Post("/api/documents.search", SearchParams(doc_title),
                                   Raised(HTTPError)))
    /\ dpc' = "done"
    /\ doc_outcome' = Raised(HTTPError)
    /\ UNCHANGED <<doc_title, doc_content, doc_kwargs, existing_document>>
    /\ UNCHANGED exceptOutline

\* _search_document_by_title returns: if existing_document, update_document
\* is entered, else publish_document
SearchReturns ==
    /\ dpc = "searching"
    /\ \E data \in SearchResponses :
        /\ posts' = Append(posts, Post("/api/documents.search", SearchParams(doc_title),
                                       Returned(data)))
        /\ existing_document' = search_document_by_title(data, doc_title)
    /\ dpc' = IF existing_document' # None /\ existing_document' # JObj(<<>>)
              THEN "updating" ELSE "publishing"
    /\ UNCHANGED <<doc_title, doc_content, doc_kwargs, doc_outcome>>
    /\ UNCHANGED exceptOutline

\* the post of update_document or publish_document
OperationPost(outcome_of_call) ==
    IF dpc = "updating"
    THEN Post("/api/documents.update",
              UpdatePayload(Get(existing_document, K_id), doc_title, doc_content, doc_kwargs),
              outcome_of_call)
    ELSE Post("/api/documents.create",
              PublishPayload(doc_title, doc_content, CollectionId, doc_kwargs),
              outcome_of_call)

\* update_document or publish_document, _handle_response raises
OperationRaises ==
    /\ dpc \in {"updating", "publishing"}
    /\ posts' = Append(posts, OperationPost(Raised(HTTPError)))
    /\ dpc' = "done"
    /\ doc_outcome' = Raised(HTTPError)
    /\ UNCHANGED <<doc_title, doc_content, doc_kwargs, existing_document>>
    /\ UNCHANGED exceptOutline

\* update_document or publish_document returns the JSON of the response,
\* which create_or_update_document returns
OperationReturns ==
    /\ dpc \in {"updating", "publishing"}
    /\ \E response_data \in OperationResponses :
        /\ posts' = Append(posts, OperationPost(Returned(response_data)))
        /\ doc_outcome' = Returned(response_data)
    /\ dpc' = "done"
    /\ UNCHANGED <<doc_title, doc_content, doc_kwargs, existing_document>>
    /\ UNCHANGED exceptOutline

InitOutline ==
    /\ EngineIdle
    /\ JsonIdle
    /\ ResearchIdle
    /\ OthersIdle

NextOutline ==
    \/ create_or_update_document
    \/ SearchRaises
    \/ SearchReturns
    \/ OperationRaises
    \/ OperationReturns

SpecOutline == InitOutline /\ [][NextOutline]_vars

(***************************************************************************)
(* IntelligenceAgent.generate_report.  call_llm is the engine's: up to     *)
(* max_retries attempts of llm.call, the first response returned as it is, *)
(* an LLMError after max_retries failures.  Numbers are given as JSON      *)
(* numbers and strings as JSON strings.                                    *)
(***************************************************************************)
K_topic == <<"t", "o", "p", "i", "c">>
K_executive_summary == <<"e", "x", "e", "c", "u", "t", "i", "v", "e", "_", "s", "u", "m", "m", "a", "r", "y">>
K_key_findings == <<"k", "e", "y", "_", "f", "i", "n", "d", "i", "n", "g", "s">>
K_finding_id == <<"f", "i", "n", "d", "i", "n", "g", "_", "i", "d">>
K_citations == <<"c", "i", "t", "a", "t", "i", "o", "n", "s">>

\* KeyFinding: finding_id, title and summary are required, citations
\* defaults to the empty list
KeyFinding(x) ==
    IF x.t # "obj" THEN Raised(ValidationError("Input should be a valid dictionary"))
    ELSE IF \E key \in {K_finding_id, K_title, K_summary} : ~HasKey(x, key)
    THEN Raised(ValidationError("Field required"))
    ELSE IF Get(x, K_finding_id).t # "num"
    THEN Raised(ValidationError("Input should be a valid integer"))
    ELSE IF \E key \in {K_title, K_summary} : Get(x, key).t # "str"
    THEN Raised(ValidationError("Input should be a valid string"))
    ELSE IF ListField(x, K_citations, "str").st = "raised" THEN ListField(x, K_citations, "str")
    ELSE Returned([title |-> Get(x, K_title).v,
                   summary |-> Get(x, K_summary).v,
                   finding_id |-> Get(x, K_finding_id).v,
                   citations |-> ListField(x, K_citations, "str").val])

\* IntelligenceReport with the keyword arguments of report_data: topic,
\* executive_summary and key_findings are required, other keys are ignored
IntelligenceReport(report_data) ==
    IF \E key \in {K_topic, K_executive_summary, K_key_findings} : ~HasKey(report_data, key)
    THEN Raised(ValidationError("Field required"))
    ELSE LET fs == Get(report_data, K_key_findings)
         IN  IF \E key \in {K_topic, K_executive_summary} : Get(report_data, key).t # "str"
             THEN Raised(ValidationError("Input should be a valid string"))
             ELSE IF fs.t # "arr" THEN Raised(ValidationError("Input should be a valid list"))
             ELSE IF \E j \in 1..Len(fs.v) : KeyFinding(fs.v[j]).st = "raised"
             THEN Raised(ValidationError("key_findings"))
             ELSE Returned([topic |-> Get(report_data, K_topic).v,
                            executive_summary |-> Get(report_data, K_executive_summary).v,
                            key_findings |-> [j \in 1..Len(fs.v) |-> KeyFinding(fs.v[j]).val]])

FailedToParseReport(e) ==
    Exc("ValueError",
        <<Lit("Failed to parse LLM response into a valid intelligence report. Error: ")>> \o Str(e))

\* the try of generate_report: the topic of the research output is written
\* into report_data and the report built from it.  A ValidationError becomes
\* a ValueError; the item assignment on a value that is no dict is a
\* TypeError.
ReportOf(report_data, topic) ==
    IF report_data.t # "obj"
    THEN Raised(Exc("TypeError", <<Lit("object does not support item assignment")>>))
    ELSE LET report == IntelligenceReport(JObj(PutMember(report_data.v, K_topic, JStr(topic))))
         IN  IF report.st = "raised" THEN Raised(FailedToParseReport(report.exc)) ELSE report

\* the number of call_llm invocations the nested _parse_response frames can
\* make before the interpreter's recursion limit is reached (a small number
\* here)
MaxReportCalls == 3

ReportTopics == {<<"T">>, <<"U">>}

FindingJson(i) ==
    JObj(<<Member(K_finding_id, JNum(i)), Member(K_title, JStr(<<"f">>)),
           Member(K_summary, JStr(<<"s">>)), Member(K_citations, JArr(<<JStr(<<"u">>)>>))>>)

ReportJson(fs) ==
    JObj(<<Member(K_executive_summary, JStr(<<"e">>)), Member(K_key_findings, JArr(fs))>>)

\* the responses of the model: reports with and without a topic of their
\* own, plain and fenced; JSON that is no report; and text that is no JSON
IntelResponses ==
    {Dumps(ReportJson(<<FindingJson(1)>>)),
     Dumps(ReportJson(<<>>)),
     Dumps(JObj(<<Member(K_topic, JStr(<<"x">>))>> \o ReportJson(<<FindingJson(1)>>).v)),
     Fence(L_json, Dumps(ReportJson(<<FindingJson(1)>>))),
     Dumps(JObj(<<Member(K_key_findings, JArr(<<FindingJson(1)>>))>>)),
     Dumps(ReportJson(<<JObj(<<Member(K_finding_id, JNum(1))>>)>>)),
     Dumps(JArr(<<FindingJson(1)>>)),
     Prose}

\* to_json_object for each text the model may answer with
ReportData == [text \in IntelResponses |-> to_json_object(text)]

\* the report generate_report makes of each response that parses, for each
\* topic
ReportFor ==
    [topic \in ReportTopics |->
        [text \in {t \in IntelResponses : ReportData[t].st = "returned"} |->
            ReportOf(ReportData[text].val, topic)]]

\* a call_llm invocation that ended: the attempts it made and what it
\* returned or raised
IntelCall(attempts, outcome_of_call) ==
    [val |-> outcome_of_call.val, st |-> outcome_of_call.st, exc |-> outcome_of_call.exc,
     attempts |-> attempts]

\* generate_report(research_output), up to the first call_llm
generate_report ==
    /\ ipc = "idle"
    /\ \E topic \in ReportTopics : report_topic' = topic
    /\ ipc' = "calling"
    /\ UNCHANGED <<agent_max_retries, iattempt, intel_calls, report_outcome>>
    /\ UNCHANGED exceptIntel

\* an attempt of call_llm fails and attempts remain
IntelAttemptFails ==
    /\ ipc = "calling"
    /\ Len(intel_calls) < MaxReportCalls
    /\ iattempt + 1 < agent_max_retries
    /\ iattempt' = iattempt + 1
    /\ UNCHANGED <<report_topic, agent_max_retries, ipc, intel_calls, report_outcome>>
    /\ UNCHANGED exceptIntel

\* the last attempt of call_llm fails: its LLMError is no JSONDecodeError and
\* leaves _parse_response and generate_report
IntelCallExhausted ==
    /\ ipc = "calling"
    /\ Len(intel_calls) < MaxReportCalls
    /\ iattempt + 1 = agent_max_retries
    /\ \E e \in LLMFailures :
        /\ intel_calls' = Append(intel_calls,
                                 IntelCall(iattempt + 1, Raised(ErrorHandler("call_llm", e))))
        /\ report_outcome' = Raised(ErrorHandler("call_llm", e))
    /\ iattempt' = 0
    /\ ipc' = "raised"
    /\ UNCHANGED <<report_topic, agent_max_retries>>
    /\ UNCHANGED exceptIntel

\* call_llm returns a response: on a JSONDecodeError of to_json_object,
\* _parse_response again, with a new call_llm; else the report is built
IntelCallReturns ==
    /\ ipc = "calling"
    /\ Len(intel_calls) < MaxReportCalls
    /\ \E text \in IntelResponses :
        /\ intel_calls' = Append(intel_calls, IntelCall(iattempt + 1, Returned(text)))
        /\ IF ReportData[text].st = "raised"
           THEN UNCHANGED <<ipc, report_outcome>>
           ELSE /\ ipc' = ReportFor[report_topic][text].st
                /\ report_outcome' = ReportFor[report_topic][text]
    /\ iattempt' = 0
    /\ UNCHANGED <<report_topic, agent_max_retries>>
    /\ UNCHANGED exceptIntel

\* _parse_response nested as deep as the interpreter allows: the next call
\* raises RecursionError, which is no JSONDecodeError and leaves every
\* _parse_response and generate_report
IntelRecursionError ==
    /\ ipc = "calling"
    /\ Len(intel_calls) = MaxReportCalls
    /\ ipc' = "raised"
    /\ report_outcome' = Raised(RecursionError)
    /\ UNCHANGED <<report_topic, agent_max_retries, iattempt, intel_calls>>
    /\ UNCHANGED exceptIntel

InitIntel ==
    /\ EngineIdle
    /\ JsonIdle
    /\ ResearchIdle
    /\ PlannerIdle
    /\ OrchEmpty
    /\ RunnerIdle
    /\ OutlineIdle
    /\ ShimIdle
    /\ report_topic = <<>>
    /\ agent_max_retries \in 1..MaxRetries
    /\ ipc = "idle"
    /\ iattempt = 0
    /\ intel_calls = <<>>
    /\ report_outcome = Pending

NextIntel ==
    \/ generate_report
    \/ IntelAttemptFails
    \/ IntelCallExhausted
    \/ IntelCallReturns
    \/ IntelRecursionError

SpecIntel == InitIntel /\ [][NextIntel]_vars

(***************************************************************************)
(* CrewAITool._run.  Keyword arguments are a dict: members with distinct   *)
(* keys, in the order given.                                               *)
(***************************************************************************)
K_kwargs == <<"k", "w", "a", "r", "g", "s">>
K_command == <<"c", "o", "m", "m", "a", "n", "d">>

\* a BaseModel with the given fields as args schema
Schema(fields) == [noargs |-> FALSE, model_fields |-> fields]

IsDict(x) == x.t = "obj"

\* step 1 of _run: a single argument "kwargs" or "arguments" that is a dict
\* takes the place of the keyword arguments
Unwrap(kwargs) ==
    IF Len(kwargs) = 1 /\ kwargs[1].k \in {K_kwargs, K_arguments} /\ IsDict(kwargs[1].val)
    THEN kwargs[1].val.v
    ELSE kwargs

IsNoneString(x) == x.t = "str" /\ x.v = <<"N", "o", "n", "e">>

KeepsValue(m) == ~IsNoneString(m.val)

\* step 2 of _run: the arguments whose value is the string "None" are dropped
Sanitize(kwargs) == SelectSeq(kwargs, KeepsValue)

\* a filter that lets every argument through
AnyArguments(kwargs, schema) == kwargs

\* step 3 of _run: with a schema other than NoArgs, only the arguments that
\* are fields of the schema are kept
SchemaFilter(kwargs, schema) ==
    IF ~schema.noargs
    THEN LET InSchema(m) == m.k \in schema.model_fields
         IN  SelectSeq(kwargs, InSchema)
    ELSE kwargs

\* the keyword arguments _run hands to execute
Filtered(kwargs, schema) == SchemaFilter(Sanitize(Unwrap(kwargs)), schema)

\* self._tool.execute with the command, if any, and the arguments
ExecuteCall(command, kwargs) == [kwargs |-> kwargs, command |-> command]

\* execute(command=..., **kwargs) with an argument named command among the
\* keyword arguments
MultipleValues ==
    Exc("TypeError", <<Lit("got multiple values for keyword argument 'command'")>>)

ToolFailure == Exc("RuntimeError", <<Lit("tool failed")>>)

\* what execute may do: return its text, or raise
ExecuteOutcomes == {Returned(<<"o", "k">>), Raised(ToolFailure)}

MaxArgs == 2

ArgNames == {<<"q">>, <<"l", "i", "m", "i", "t">>, <<"b", "o", "g", "u", "s">>, K_command}
ArgValues == {JStr(<<"v">>), JStr(<<"N", "o", "n", "e">>), JNum(1)}

\* the dicts of up to n arguments
Dicts(n) ==
    {d \in UNION {[1..l -> [k : ArgNames, val : ArgValues]] : l \in 0..n} :
        \A i, j \in 1..Len(d) : i # j => d[i].k # d[j].k}

\* the keyword arguments of a call: plain; nested under "kwargs" or
\* "arguments", alone or beside another argument; and "kwargs" with a value
\* that is no dict
KwargsOfRun ==
    Dicts(MaxArgs)
    \cup {<<Member(key, JObj(d))>> : key \in {K_kwargs, K_arguments}, d \in Dicts(MaxArgs)}
    \cup {<<Member(K_kwargs, JObj(d)), Member(<<"q">>, JStr(<<"v">>))>> : d \in Dicts(1)}
    \cup {<<Member(K_kwargs, JStr(<<"v">>))>>, <<Member(K_arguments, JStr(<<"N", "o", "n", "e">>))>>}

Schemas == {NoArgs, Schema({<<"q">>, <<"l", "i", "m", "i", "t">>}), Schema({<<"q">>, K_command}), Schema({K_kwargs})}

CommandNames == {<<>>, <<"s", "e", "a", "r", "c", "h">>}

\* _run, with the keyword arguments given, on the tool
CrewAITool_run ==
    /\ tool_outcome = Pending
    /\ \E result \in ExecuteOutcomes :
        LET arguments == Filtered(run_kwargs, args_schema)
        IN  IF command_name # <<>> /\ \E i \in 1..Len(arguments) : arguments[i].k = K_command
            THEN /\ execute_calls' = <<>>
                 /\ tool_outcome' = Raised(MultipleValues)
            ELSE /\ execute_calls' = <<ExecuteCall(command_name, arguments)>>
                 /\ tool_outcome' = result
    /\ UNCHANGED <<run_kwargs, args_schema, command_name>>
    /\ UNCHANGED exceptShim

\* a CrewAITool with its schema and command, and the keyword arguments of
\* the call to come
InitShim ==
    /\ EngineIdle
    /\ JsonIdle
    /\ ResearchIdle
    /\ PlannerIdle
    /\ OrchEmpty
    /\ RunnerIdle
    /\ OutlineIdle
    /\ IntelIdle
    /\ run_kwargs \in KwargsOfRun
    /\ args_schema \in Schemas
    /\ command_name \in CommandNames
    /\ execute_calls = <<>>
    /\ tool_outcome = Pending

NextShim == CrewAITool_run

SpecShim == InitShim /\ [][NextShim]_vars

(***************************************************************************)
(* Properties.  The stub's record of what it answered (llm_history) says   *)
(* which attempts failed: the call raised, or, where the response handler  *)
(* parses JSON, the text returned holds no JSON value.                     *)
(***************************************************************************)
Finished == pc \in {"returned", "raised"}

AttemptFailed(i) ==
    \/ ~llm_history[i].ok
    \/ entry # "call_llm" /\ ~llm_history[i].answer.wellformed

AttemptException(i) ==
    IF ~llm_history[i].ok THEN llm_history[i].exc ELSE JSONDecodeError

FailedAttempts == {i \in 1..Len(llm_history) : AttemptFailed(i)}

SleepCount == Cardinality({i \in 1..Len(events) : events[i].kind = "sleep"})

\* C1: with max_retries >= 1 the model is never called more than max_retries
\* times, and an invocation in which every attempt failed has called it
\* exactly max_retries times and raised the error handler's LLMError.
C1_RetryBound ==
    max_retries >= 1 =>
        /\ call_count <= max_retries
        /\ pc = "loop" => call_count < max_retries
        /\ (Finished /\ FailedAttempts = 1..Len(llm_history)) =>
              /\ call_count = max_retries
              /\ Len(llm_history) = max_retries
              /\ pc = "raised"
              /\ outcome.st = "raised"
              /\ outcome.exc.type = "LLMError"
              /\ outcome.exc = ErrorHandler(entry, last_exception)

C1_Witness ==
    /\ pc = "raised"
    /\ max_retries = MaxRetries
    /\ call_count = MaxRetries
    /\ FailedAttempts = 1..MaxRetries
    /\ outcome.exc.type = "LLMError"

\* C2: an attempt that succeeds is the last call of the invocation: if it is
\* attempt k+1 the model was called exactly k+1 <= max_retries times, all
\* earlier attempts failed, and the value returned is the response handler's
\* value for the response of that attempt (the text itself in call_llm, the
\* JSON value it holds in llm_json).
C2_EarlySuccess ==
    \A i \in 1..Len(llm_history) :
        ~AttemptFailed(i) =>
            /\ i = Len(llm_history)
            /\ call_count = i
            /\ i <= max_retries
            /\ FailedAttempts = 1..(i - 1)
            /\ llm_result.st = "returned"
            /\ entry = "call_llm" => /\ llm_result.val = llm_history[i].answer.text
                                     /\ outcome = llm_result
                                     /\ pc = "returned"
            /\ entry # "call_llm" => llm_result.val = llm_history[i].answer.value
            /\ entry = "llm_json" => outcome = llm_result /\ pc = "returned"

C2_Witness ==
    /\ pc = "returned"
    /\ entry = "llm_json"
    /\ max_retries = 3
    /\ call_count = 2
    /\ AttemptFailed(1)
    /\ ~AttemptFailed(2)

\* C3: a response the handler rejects uses up one attempt exactly as a failed
\* model call does: every failed attempt of either kind is logged and
\* advances the loop by one, the calls never exceed max_retries, the
\* invocation raises only when all max_retries attempts are used, and a
\* malformed response followed by a well-formed one returns the value of the
\* well-formed one after exactly two calls.
C3_SharedBudget ==
    /\ call_count <= max_retries
    /\ Len(log) = Cardinality(FailedAttempts)
    /\ pc = "loop" => attempt = call_count /\ Len(log) = call_count
    /\ (llm_result.st = "raised" /\ max_retries >= 1) => call_count = max_retries
    /\ ( /\ entry # "call_llm"
         /\ Len(llm_history) >= 2
         /\ llm_history[1].ok /\ ~llm_history[1].answer.wellformed
         /\ llm_history[2].ok /\ llm_history[2].answer.wellformed )
       => /\ call_count = 2
          /\ llm_result.st = "returned"
          /\ llm_result.val = llm_history[2].answer.value

C3_Witness ==
    /\ entry = "select_urls"
    /\ pc = "returned"
    /\ call_count = 2
    /\ llm_history[1].ok /\ ~llm_history[1].answer.wellformed
    /\ llm_history[2].answer.exact
    /\ outcome.val # <<>>

\* C4: when the attempts are exhausted the caller receives the error handler's
\* error for the exception of attempt max_retries; in call_llm that LLMError
\* has the message of that exception.
C4_LastException ==
    (llm_result.st = "raised" /\ max_retries >= 1) =>
        /\ Len(llm_history) = max_retries
        /\ llm_result.exc = ErrorHandler(entry, AttemptException(max_retries))
        /\ outcome = llm_result
        /\ entry = "call_llm" => /\ outcome.exc.type = "LLMError"
                                 /\ outcome.exc.msg = AttemptException(max_retries).msg

C4_Witness ==
    /\ pc = "raised"
    /\ entry = "call_llm"
    /\ max_retries >= 2
    /\ Len(llm_history) = max_retries
    /\ llm_history[1].exc # llm_history[max_retries].exc
    /\ outcome.exc.msg = llm_history[max_retries].exc.msg

\* C5: calls and sleeps alternate, starting with a call: one sleep between two
\* consecutive calls and none before the first; a finished invocation ends
\* with a call, so that f failed attempts sleep f times before a success and
\* f - 1 times when the attempts are exhausted.
C5_BackoffPlacement ==
    /\ \A i \in 1..Len(events) : events[i].kind = (IF i % 2 = 1 THEN "call" ELSE "sleep")
    /\ (Finished /\ events # <<>>) => events[Len(events)].kind = "call"
    /\ (pc = "loop" /\ events # <<>>) => events[Len(events)].kind = "sleep"
    /\ llm_result.st = "returned" => SleepCount = Len(log)
    /\ (llm_result.st = "raised" /\ max_retries >= 1) => SleepCount = Len(log) - 1

C5_Witness ==
    /\ pc = "raised"
    /\ llm_result.st = "raised"
    /\ Len(log) = 3
    /\ SleepCount = 2
    /\ events[Len(events)].kind = "call"

\* C6: the sleep after the failed attempt with index a lasts 1.5^a (1 after
\* the first failure), and each sleep is longer than the one before it.
C6_BackoffSchedule ==
    \A i \in 1..Len(events) :
        events[i].kind = "sleep" =>
            LET a == (i \div 2) - 1
            IN  /\ events[i].den > 0
                /\ events[i].num * Pow(2, a) = events[i].den * Pow(3, a)
                /\ a = 0 => events[i].num = events[i].den
                /\ a > 0 => events[i - 2].num * events[i].den
                              < events[i].num * events[i - 2].den

C6_Witness ==
    /\ SleepCount >= 2
    /\ events[2].kind = "sleep" /\ events[2].num = 1 /\ events[2].den = 1
    /\ events[4].kind = "sleep" /\ events[4].num = 3 /\ events[4].den = 2

\* the message has a part that is the text cs
MsgIncludesText(msg, cs) == \E i \in 1..Len(msg) : msg[i].k = "text" /\ msg[i].cs = cs

\* the message m ends with the message tail
MsgEndsWith(m, tail) ==
    /\ Len(tail) <= Len(m)
    /\ SubSeq(m, Len(m) - Len(tail) + 1, Len(m)) = tail

\* C7: in llm_json the error raised after max_retries failed attempts states
\* the number of attempts, includes the last raw response text the model
\* returned, and includes the last underlying exception.
C7_ErrorCarriesResponse ==
    (llm_result.st = "raised" /\ entry # "call_llm" /\ max_retries >= 1) =>
        /\ \E i \in 1..Len(llm_result.exc.msg) : llm_result.exc.msg[i] = IntPart(max_retries)
        /\ MsgEndsWith(llm_result.exc.msg, Str(last_exception))
        /\ ~response_text.none => MsgIncludesText(llm_result.exc.msg, response_text.text)

\* the URLs whose score is at least the threshold, in the order given
Kept(urls, rels, threshold) ==
    LET Keep(i) == rels[i] >= threshold
        idx == SelectSeq([i \in 1..Len(urls) |-> i], Keep)
    IN  [j \in 1..Len(idx) |-> urls[idx[j]]]

\* C10: when the model's first answer scores exactly the candidates,
\* select_urls has made exactly one model call and returns the URLs whose
\* score is at least relevance_threshold, a score equal to it included, in
\* the order the model emitted them.
C10_ThresholdFilter ==
    ( /\ entry = "select_urls"
      /\ Len(llm_history) >= 1
      /\ llm_history[1].ok
      /\ llm_history[1].answer.exact )
    => /\ call_count = 1
       /\ pc = "returned"
       /\ outcome.st = "returned"
       /\ outcome.val = Kept(llm_history[1].answer.urls, llm_history[1].answer.rels,
                             relevance_threshold)

C10_Witness ==
    /\ entry = "select_urls"
    /\ pc = "returned"
    /\ call_count = 1
    /\ relevance_threshold = 6
    /\ llm_history[1].answer.exact
    /\ llm_history[1].answer.urls = <<Url(2), Url(1)>>
    /\ llm_history[1].answer.rels = <<6, 2>>
    /\ outcome.val = <<Url(2)>>

\* the URLs of the candidates given to select_urls
CandidateUrls == {search_results[j].url : j \in 1..Len(search_results)}

\* C11: every URL select_urls returns is the URL of one of the candidates; a
\* URL the model made up is never returned, whatever its score.
C11_NoHallucinatedUrl ==
    (entry = "select_urls" /\ outcome.st = "returned") =>
        \A i \in 1..Len(outcome.val) : outcome.val[i] \in CandidateUrls

\* the URLs the records of a parsed response are keyed by
ResponseUrls(x) ==
    IF x.t # "arr" THEN {}
    ELSE {Get(x.v[i], K_url).v : i \in {j \in 1..Len(x.v) : x.v[j].t = "obj" /\ HasKey(x.v[j], K_url)}}

\* the score set of a parsed response has every candidate URL as a key and as
\* many keys as there are candidates
Covers(x) ==
    /\ CandidateUrls \subseteq ResponseUrls(x)
    /\ Cardinality(ResponseUrls(x)) = Len(search_results)

\* C12: select_urls returns a result only from a response whose score set
\* covers the candidates; a first response that leaves a candidate out is
\* followed by a second model call instead of a result.
C12_CoverageRetry ==
    entry = "select_urls" =>
        /\ outcome.st = "returned" => Covers(llm_history[Len(llm_history)].answer.value)
        /\ ( /\ Len(llm_history) >= 1
             /\ llm_history[1].ok
             /\ llm_history[1].answer.wellformed
             /\ ~Covers(llm_history[1].answer.value)
             /\ Finished /\ max_retries >= 2 )
           => call_count >= 2

\* C13: a relevance that is no number does not reach the caller of
\* select_urls as a ValueError.
C13_MalformedRelevanceRetries ==
    entry = "select_urls" => ~(outcome.st = "raised" /\ outcome.exc.type = "ValueError")

\* C14: a finished select_urls has called the model at most max_retries
\* times and has either returned a list of URLs or raised the terminal error
\* that states the number of attempts after which the round trip failed.
C14_SelectorOutcome ==
    (entry = "select_urls" /\ Finished) =>
        /\ call_count <= max_retries
        /\ \/ outcome.st = "returned"
           \/ /\ outcome.st = "raised"
              /\ outcome.exc.type = "LLMError"
              /\ \E i \in 1..Len(outcome.exc.msg) : outcome.exc.msg[i] = IntPart(max_retries)

\* C15: select_urls with no candidates still builds the prompt, with an empty
\* list section, and does not return before the model was called with it; with
\* max_retries >= 1 it does not finish at all without a model call.
C15_EmptyCandidatesCallThrough ==
    (entry = "select_urls" /\ search_results = <<>>) =>
        /\ prompt = build_selection_prompt(<<>>)
        /\ prompt.url_list_section = <<>>
        /\ outcome.st = "returned" => /\ call_count >= 1
                                      /\ \A i \in 1..Len(llm_history) : llm_history[i].prompt = prompt
        /\ (Finished /\ max_retries >= 1) => call_count >= 1

C15_Witness ==
    /\ entry = "select_urls"
    /\ search_results = <<>>
    /\ pc = "returned"
    /\ outcome = Returned(<<>>)
    /\ call_count = 1
    /\ llm_history[1].prompt.url_list_section = <<>>

\* the relevance of the last record of the parsed response x that scores u
LastRelevance(x, u) ==
    LET last == CHOOSE j \in 1..Len(x.v) :
                    /\ Get(x.v[j], K_url).v = u
                    /\ \A n \in (j + 1)..Len(x.v) : Get(x.v[n], K_url).v # u
    IN  ToFloat(Get(x.v[last], K_relevance)).val

\* C22: the list select_urls returns holds each URL at most once, and a URL
\* the accepted response scores, once or several times, is in the list
\* exactly when the relevance of the last record that scores it is at least
\* the threshold.
C22_LastWriteWins ==
    (entry = "select_urls" /\ outcome.st = "returned") =>
        LET x == llm_history[Len(llm_history)].answer.value
        IN  /\ \A i, j \in 1..Len(outcome.val) : outcome.val[i] = outcome.val[j] => i = j
            /\ \A u \in ResponseUrls(x) :
                    (\E i \in 1..Len(outcome.val) : outcome.val[i] = u)
                        <=> LastRelevance(x, u) >= relevance_threshold

\* a response that scores the first candidate 9 and later 2 was accepted,
\* and the list returned holds the second candidate only
C22_Witness ==
    /\ entry = "select_urls"
    /\ Len(search_results) = 2
    /\ outcome = Returned(<<Url(2)>>)
    /\ LET x == llm_history[Len(llm_history)].answer.value
       IN  /\ Len(x.v) = 3
           /\ Get(x.v[1], K_url).v = Url(1) /\ ToFloat(Get(x.v[1], K_relevance)).val = 9
           /\ Get(x.v[3], K_url).v = Url(1) /\ ToFloat(Get(x.v[3], K_relevance)).val = 2

\* C23: every failed attempt has its record in the log, in order: the
\* 1-based index of the attempt, within 1..max_retries, the message of the
\* exception of that attempt, and the response text of that attempt if the
\* model returned one; the record of an attempt whose model call raised
\* holds no response text.
C23_FailureRecord ==
    /\ Len(log) = Cardinality(FailedAttempts)
    /\ \A i \in 1..Len(log) :
         /\ AttemptFailed(i)
         /\ log[i].attempt = i
         /\ 1 <= log[i].attempt /\ log[i].attempt <= max_retries
         /\ log[i].error = Str(AttemptException(i))
         /\ llm_history[i].ok => log[i].response_text = SomeText(llm_history[i].answer.text)
         /\ ~llm_history[i].ok => log[i].response_text.none

(***************************************************************************)
(* Properties of ResearchAgent.run_research, under SpecResearch.           *)
(***************************************************************************)
ResearchFinished == rpc \in {"returned", "raised"}

\* the URL a scrape call was given, if it was given one
ScrapedUrl(i) == Get(tool_calls[i].arguments, K_url)

IsScrapeOfUrl(i) ==
    /\ tool_calls[i].tool = T_scrape_tool
    /\ HasKey(tool_calls[i].arguments, K_url)

\* C16: within one run the scrape tool is executed at most once per URL: no
\* two executions of the scrape tool were given the same URL.
C16_ScrapeOncePerUrl ==
    \A i, j \in 1..Len(tool_calls) :
        (i < j /\ IsScrapeOfUrl(i) /\ IsScrapeOfUrl(j)) => ScrapedUrl(i) # ScrapedUrl(j)

\* the action the model gave in iteration n, if it gave one
GaveAction(n) ==
    /\ n \in 1..Len(research_calls)
    /\ research_calls[n].kind = "action"
    /\ research_calls[n].st = "returned"

ActionGiven(n) == ActionOf[research_calls[n].answer]

\* a finish action with a summary that is not empty
IsFinish(n) ==
    /\ GaveAction(n)
    /\ ActionGiven(n).k = "finish"
    /\ Truthy(DictGet(ActionGiven(n).arguments, K_summary, JStr(<<>>)))

\* the scrape calls that returned a page, as (url, content) entries
SuccessfulScrapes ==
    LET Good(c) == /\ c.tool = T_scrape_tool
                   /\ c.result.st = "returned"
                   /\ Truthy(c.result.val)
                   /\ ~Contains(c.result.val.v, FailedToScrape)
        good == SelectSeq(tool_calls, Good)
    IN  [i \in 1..Len(good) |->
            [url |-> DictGet(good[i].arguments, K_url, JLit("null")).v,
             content |-> good[i].result.val.v]]

\* C17: every search_tool / scrape_tool action is dispatched to the tool it
\* names with the model's arguments and nothing else calls a tool; after a
\* finish action with a summary there is no further model call and no tool
\* call; and the run that got such a finish action returns an output whose
\* summary is that of the finish action and whose results are the successful
\* scrapes.
C17_DispatchAndFinish ==
    /\ \A n \in 1..Len(research_calls) :
          (GaveAction(n) /\ ActionGiven(n).k \in {"search_tool", "scrape_tool"}) =>
              \E i \in 1..Len(tool_calls) :
                  /\ tool_calls[i].iteration = n
                  /\ tool_calls[i].tool = (IF ActionGiven(n).k = "search_tool"
                                           THEN T_search_tool ELSE T_scrape_tool)
                  /\ tool_calls[i].arguments = ActionGiven(n).arguments
    /\ \A i \in 1..Len(tool_calls) :
          /\ GaveAction(tool_calls[i].iteration)
          /\ ActionGiven(tool_calls[i].iteration).k \in {"search_tool", "scrape_tool"}
          /\ \A j \in 1..Len(tool_calls) : tool_calls[j].iteration = tool_calls[i].iteration => j = i
    /\ \A n \in 1..Len(research_calls) :
          IsFinish(n) =>
              /\ n = Len(research_calls)
              /\ \A i \in 1..Len(tool_calls) : tool_calls[i].iteration < n
              /\ ResearchFinished =>
                    /\ research_outcome.st = "returned"
                    /\ research_outcome.val.summary
                         = DictGet(ActionGiven(n).arguments, K_summary, JStr(<<>>))
                    /\ research_outcome.val.results = SuccessfulScrapes

\* the calls of the model of one kind, by their place in research_calls
CallsOfKind(kind) == {n \in 1..Len(research_calls) : research_calls[n].kind = kind}

\* iteration n was left by an exception that run_research does not catch:
\* the model call or the tool raised, the arguments were no mapping, or the
\* page could not be made a ResearchResult
IterationAborted(n) ==
    \/ research_calls[n].st = "raised"
    \/ ActionGiven(n).k = "type_error"
    \/ \E i \in 1..Len(tool_calls) :
          /\ tool_calls[i].iteration = n
          /\ \/ tool_calls[i].result.st = "raised"
             \/ /\ tool_calls[i].tool = T_scrape_tool
                /\ Truthy(tool_calls[i].result.val)
                /\ ~Contains(tool_calls[i].result.val.v, FailedToScrape)
                /\ DictGet(tool_calls[i].arguments, K_url, JLit("null")).t # "str"

\* the loop was left by a finish action or after max_iterations iterations
LoopEnded ==
    /\ rpc # "idle"
    /\ \/ \E n \in CallsOfKind("action") : GaveAction(n) /\ ActionGiven(n).k = "finish"
       \/ /\ Cardinality(CallsOfKind("action")) = max_iterations
          /\ max_iterations > 0 => ~IterationAborted(max_iterations)

\* at most max_iterations model calls for an action, one per iteration; at
\* most one summary call, after all action calls, made by a run whose loop
\* has ended exactly when no finish action gave a summary that is not empty
CallsBounded ==
    /\ iteration <= max_iterations
    /\ Cardinality(CallsOfKind("action")) = iteration
    /\ rpc = "loop" => iteration < max_iterations
    /\ Cardinality(CallsOfKind("summary")) <= 1
    /\ \A n \in CallsOfKind("summary") : n = Len(research_calls)
    /\ ~LoopEnded => CallsOfKind("summary") = {}
    /\ (LoopEnded /\ rpc # "after_loop") =>
          (Cardinality(CallsOfKind("summary")) = 1
              <=> ~\E n \in 1..Len(research_calls) : IsFinish(n))

\* every step of the loop is one more iteration, and the step after the
\* loop ends the run
RunAdvances ==
    /\ rpc = "loop" => iteration' = iteration + 1 /\ rpc' \in {"loop", "after_loop", "raised"}
    /\ rpc = "after_loop" => rpc' \in {"returned", "raised"}
    /\ rpc \in {"returned", "raised"} => rpc' = rpc

\* C24: run_research is bounded and ends: the loop variable grows with
\* every step of the loop and never passes max_iterations, and the step
\* after the loop returns or raises; the run makes at most max_iterations
\* model calls for an action, and one summary call exactly when the loop
\* ended, by exhaustion or by a finish action, without a summary that is
\* not empty; otherwise it makes no summary call.
C24_BoundedCalls == []CallsBounded /\ [][RunAdvances]_vars

\* a run of three iterations without a finish action made the summary call
\* as its fourth call
C24_Witness ==
    /\ max_iterations = 3
    /\ ResearchFinished
    /\ LoopEnded
    /\ Len(research_calls) = 4
    /\ research_calls[4].kind = "summary"
    /\ research_calls[4].st = "returned"
    /\ \A n \in 1..3 : GaveAction(n) /\ ActionGiven(n).k # "finish"

\* the JSON of each text the model may answer with
ParsedAction == [text \in ResearchResponses |-> to_json_object(text)]

\* the answer of iteration n is no JSON, or no object, or an object that
\* names a tool other than finish, search_tool and scrape_tool
BadAction(n) ==
    /\ GaveAction(n)
    /\ LET r == ParsedAction[research_calls[n].answer]
       IN  \/ r.st = "raised"
           \/ r.val.t # "obj"
           \/ LET name == DictGet(r.val, K_tool_name, JStr(<<>>))
              IN  \/ name.t # "str"
                  \/ Strip(name.v) \notin {T_finish, T_search_tool, T_scrape_tool}

\* the iterations that appended to the history, in order
HistoryIterations ==
    LET Appended(n) == /\ GaveAction(n)
                       /\ ActionGiven(n).k # "finish"
                       /\ ~IterationAborted(n)
    IN  SelectSeq([n \in 1..Len(research_calls) |-> n], Appended)

\* C25: an answer that is no JSON or no object, or that names an unknown
\* tool, executes no tool and appends one entry to the history, an
\* invalid_action or an invalid_tool entry; the run goes on, with the next
\* iteration if there is one; and every result is the page of a scrape call
\* that returned a text that is not empty and does not contain the sentinel.
C25_BadActionsTolerated ==
    /\ Len(history) = Len(HistoryIterations)
    /\ \A j \in 1..Len(HistoryIterations) :
         BadAction(HistoryIterations[j]) =>
            \/ history[j] = InvalidActionEntry
            \/ /\ Get(history[j], K_tool) = JStr(T_invalid_tool)
               /\ Get(history[j], K_result).t = "str"
    /\ \A n \in 1..Len(research_calls) :
         BadAction(n) =>
            /\ \A i \in 1..Len(tool_calls) : tool_calls[i].iteration # n
            /\ \E j \in 1..Len(HistoryIterations) : HistoryIterations[j] = n
            /\ n = Len(research_calls) =>
                  /\ research_outcome = Pending
                  /\ rpc = (IF n < max_iterations THEN "loop" ELSE "after_loop")
    /\ \A j \in 1..Len(results) :
         /\ results[j].content # <<>>
         /\ ~Contains(results[j].content, FailedToScrape)
         /\ \E i \in 1..Len(tool_calls) :
               /\ tool_calls[i].tool = T_scrape_tool
               /\ tool_calls[i].result = Returned(JStr(results[j].content))

\* after an answer that is no JSON and an answer that names an unknown tool
\* the history holds the two entries, no tool was called, and the third
\* iteration scraped a page into the results
C25_Witness ==
    /\ Len(research_calls) = 3
    /\ BadAction(1) /\ ActionGiven(1).k = "invalid_action"
    /\ BadAction(2) /\ ActionGiven(2).k = "invalid_tool"
    /\ Len(history) = 3
    /\ history[1] = InvalidActionEntry
    /\ Get(history[2], K_tool) = JStr(T_invalid_tool)
    /\ Len(tool_calls) = 1
    /\ tool_calls[1].iteration = 3
    /\ Len(results) = 1

(***************************************************************************)
(* Properties of PlannerAgent.generate_plan, under SpecPlanner.            *)
(***************************************************************************)
\* C18: the Plan that generate_plan returns carries the requested goal,
\* whatever goal the response of the model names; and when the first
\* response of the model is a valid plan, the model is called exactly once
\* and that plan is returned.
C18_RequestedGoalSingleCall ==
    /\ plan_outcome.st = "returned" => plan_outcome.val.goal = goal
    /\ (planner_calls # <<>> /\ planner_calls[1].valid)
         => /\ Len(planner_calls) = 1
            /\ ppc = "returned"
            /\ plan_outcome.st = "returned"

\* a first response that is a valid plan with another goal was returned as
\* the plan, with its one task
C18_Witness ==
    /\ ppc = "returned"
    /\ goal = <<"g">>
    /\ Len(planner_calls) = 1
    /\ planner_calls[1].valid
    /\ planner_calls[1].answer = Dumps(PlanJson(<<"x">>, <<T1>>))
    /\ plan_outcome.st = "returned"
    /\ plan_outcome.val.goal = <<"g">>
    /\ Len(plan_outcome.val.tasks) = 1
    /\ plan_outcome.val.tasks[1].agent = <<"S", "e", "n", "i", "o", "r", " ", "R", "e", "s", "e", "a", "r", "c", "h", " ", "A", "n", "a", "l", "y", "s", "t">>

\* the i-th round of the run failed: the model call raised, or
\* _parse_response raised on its response
PlannerCallFailed(i) ==
    \/ planner_calls[i].st = "raised"
    \/ ParsedPlan[goal][planner_calls[i].answer].st = "raised"

\* every model call gets the prompt of the goal; every call but the last
\* failed; the last round of a run that returned did not fail, and its plan
\* is what the run returned
RetriesUntilPlan ==
    /\ \A i \in 1..Len(planner_calls) : planner_calls[i].prompt = create_prompt(goal)
    /\ \A i \in 1..Len(planner_calls) - 1 : PlannerCallFailed(i)
    /\ ppc = "calling" => \A i \in 1..Len(planner_calls) : PlannerCallFailed(i)
    /\ ppc = "returned"
         => /\ planner_calls # <<>>
            /\ ~PlannerCallFailed(Len(planner_calls))
            /\ plan_outcome.st = "returned"
            /\ plan_outcome = ParsedPlan[goal][planner_calls[Len(planner_calls)].answer]

\* C27: generate_plan never raises to its caller and returns nothing but a
\* validated Plan: every failed round is followed by another model call
\* with the same prompt, so a valid plan after k failed rounds is returned
\* after exactly k + 1 model calls.
C27_NeverRaisesRetries ==
    /\ ppc # "raised"
    /\ plan_outcome.st # "raised"
    /\ RetriesUntilPlan

(***************************************************************************)
(* Properties of CrewAIOrchestrator, under SpecOrch.                       *)
(***************************************************************************)
AgentAdded(c) == c.op = "add_agent" /\ c.st = "returned"
TaskAdded(c) == c.op = "add_task" /\ c.st = "returned"

\* the agents registered by the calls before the i-th
RegisteredBefore(i) == {orch_calls[j].agent : j \in {n \in 1..(i - 1) : AgentAdded(orch_calls[n])}}

\* the crewai agents the successful add_agent calls made, in call order
AgentsMade ==
    LET added == SelectSeq(orch_calls, AgentAdded)
    IN  [j \in 1..Len(added) |-> CrewAgent(j, added[j].agent)]

\* the tasks the successful add_task calls were given, in call order
TasksGiven ==
    LET added == SelectSeq(orch_calls, TaskAdded)
    IN  [j \in 1..Len(added) |-> added[j].task]

\* C19: add_task for a task whose agent no earlier add_agent registered
\* raises ValueError; crewai_agents and agent_map are what the successful
\* add_agent calls made and crewai_tasks what the successful add_task calls
\* were given, so a refused task changes none of them; every task of
\* crewai_tasks is bound to an agent of crewai_agents, and the tasks are in
\* the order in which they were added.
C19_UnregisteredAgentRefused ==
    /\ \A i \in 1..Len(orch_calls) :
         (orch_calls[i].op = "add_task" /\ orch_calls[i].task.agent \notin RegisteredBefore(i))
            => orch_calls[i].st = "raised" /\ orch_calls[i].exc.type = "ValueError"
    /\ crewai_agents = AgentsMade
    /\ DOMAIN agent_map = RegisteredBefore(Len(orch_calls) + 1)
    /\ \A a \in DOMAIN agent_map :
         \E j \in 1..Len(crewai_agents) :
            /\ agent_map[a] = crewai_agents[j]
            /\ crewai_agents[j].role = RoleOf(a)
    /\ Len(crewai_tasks) = Len(TasksGiven)
    /\ \A j \in 1..Len(crewai_tasks) :
         /\ crewai_tasks[j].description = TasksGiven[j].description
         /\ crewai_tasks[j].expected_output = TasksGiven[j].expected_output
         /\ \E n \in 1..Len(crewai_agents) : crewai_tasks[j].agent = crewai_agents[n]

\* between two accepted tasks, a task for an agent that was never
\* registered was refused
C19_Witness ==
    /\ Len(orch_calls) = 4
    /\ AgentAdded(orch_calls[1]) /\ orch_calls[1].agent = 1
    /\ TaskAdded(orch_calls[2]) /\ orch_calls[2].task = AbstractTask(<<"d", "1">>, <<"o", "u", "t">>, 1)
    /\ orch_calls[3].op = "add_task" /\ orch_calls[3].task = AbstractTask(<<"d", "2">>, <<"o", "u", "t">>, 2)
    /\ orch_calls[3].st = "raised"
    /\ TaskAdded(orch_calls[4]) /\ orch_calls[4].task = AbstractTask(<<"d", "2">>, <<"o", "u", "t">>, 1)
    /\ Len(crewai_tasks) = 2
    /\ crewai_tasks[1].description = <<"d", "1">>
    /\ crewai_tasks[2].description = <<"d", "2">>
    /\ DOMAIN agent_map = {1}

(***************************************************************************)
(* Properties of Runner.run, under SpecRunner.                             *)
(***************************************************************************)
\* C20: a run that ends without an exception asked the planner for a plan
\* once, with the query; then added one orchestrator task for each task of
\* the plan, in the order of the plan, each with the texts of its plan task
\* and the agent of its role; then executed the orchestrator once, on a crew
\* that holds all these tasks; and returned the raw output of that execution.
C20_PlanTasksExecuteInOrder ==
    (runs > 0 /\ run_exception = NoException) =>
        /\ Len(run_calls) >= 2
        /\ run_calls[1].op = "generate_plan"
        /\ run_calls[1].st = "returned"
        /\ run_calls[1].query = query
        /\ LET tasks == run_calls[1].val.tasks
               n == Len(tasks)
               last == run_calls[Len(run_calls)]
           IN  /\ Len(run_calls) = n + 2
               /\ \A i \in 1..n :
                    /\ run_calls[i + 1].op = "add_task"
                    /\ run_calls[i + 1].st = "returned"
                    /\ run_calls[i + 1].task.description = tasks[i].description
                    /\ run_calls[i + 1].task.expected_output = tasks[i].expected_output
                    /\ RoleOf(run_calls[i + 1].task.agent) = tasks[i].agent
               /\ last.op = "execute"
               /\ last.st = "returned"
               /\ Len(last.crew.tasks) >= n
               /\ \A i \in 1..n :
                    LET crewai_task == last.crew.tasks[Len(last.crew.tasks) - n + i]
                    IN  /\ crewai_task.description = tasks[i].description
                        /\ crewai_task.agent.role = tasks[i].agent
               /\ run_outcome = Returned(<<TextPart(last.val.raw_output)>>)

\* a run for a plan of two tasks for two different agents returned the
\* answer of the crew
C20_Witness ==
    /\ runs > 0
    /\ run_exception = NoException
    /\ query = <<"q", "2">>
    /\ Len(run_calls) = 4
    /\ run_calls[1].val.goal = <<"q", "2">>
    /\ run_calls[2].task.agent = ResearchAgent
    /\ run_calls[3].task.agent = PlannerAgent
    /\ run_calls[3].task.description = <<"d", "2">>
    /\ run_calls[4].op = "execute"
    /\ run_outcome = Returned(<<TextPart(<<"f", "i", "n", "a", "l", " ", "a", "n", "s", "w", "e", "r">>)>>)

\* the plan of the last run, if the planner returned one, names a role that
\* no registered agent has
UnregisteredRoleNamed ==
    /\ run_calls[1].st = "returned"
    /\ \E i \in 1..Len(run_calls[1].val.tasks) :
         run_calls[1].val.tasks[i].agent \notin DOMAIN agent_instances

\* a call of the last run raised: the planner, add_task or execute
RunCallRaised == \E i \in 1..Len(run_calls) : run_calls[i].st = "raised"

ExecuteCalled == \E i \in 1..Len(run_calls) : run_calls[i].op = "execute"

\* C28: run never raises.  When planning, adding a task or the execution
\* raised, run returns a text that starts with "Error during workflow
\* execution:"; and when a task of the plan names a role that is not
\* registered, that run does not call orchestrator.execute.
C28_RunNeverRaises ==
    runs > 0 =>
        /\ run_outcome.st = "returned"
        /\ (RunCallRaised \/ UnregisteredRoleNamed)
             => /\ run_outcome.val # <<>>
                /\ run_outcome.val[1] = Lit("Error during workflow execution: ")
        /\ UnregisteredRoleNamed => ~ExecuteCalled

\* a run whose plan gives its first task to a registered agent and its
\* second to 'Research Agent', which is not registered: the first task was
\* added, execute was not called, and the text of the ValueError returned
C28_Witness ==
    /\ runs > 0
    /\ UnregisteredRoleNamed
    /\ Len(run_calls) = 2
    /\ run_calls[2].op = "add_task"
    /\ run_calls[2].st = "returned"
    /\ run_outcome.st = "returned"
    /\ run_outcome.val[2] = Lit("ValueError")
    /\ run_outcome.val[5] = TextPart(<<"R", "e", "s", "e", "a", "r", "c", "h", " ", "A", "g", "e", "n", "t">>)

\* the tasks of the orchestrator are the tasks of the given plan, one for
\* one and in order
TasksOfPlan(ctasks, ptasks) ==
    /\ Len(ctasks) = Len(ptasks)
    /\ \A i \in 1..Len(ptasks) :
         /\ ctasks[i].description = ptasks[i].description
         /\ ctasks[i].expected_output = ptasks[i].expected_output
         /\ ctasks[i].agent.role = ptasks[i].agent

\* C29: a run executes only the tasks of its own plan: after a run that
\* went through, the crew it executed and the task list of the orchestrator
\* hold exactly the tasks of the plan of that run, and nothing that an
\* earlier run, or an earlier run that failed half way, had added.
C29_OnlyTasksOfItsPlan ==
    (runs > 0 /\ run_exception = NoException) =>
        /\ TasksOfPlan(crewai_tasks, run_calls[1].val.tasks)
        /\ TasksOfPlan(run_calls[Len(run_calls)].crew.tasks, run_calls[1].val.tasks)

(***************************************************************************)
(* Properties of OutlineTool.create_or_update_document, under SpecOutline. *)
(***************************************************************************)
\* the ids of the documents with exactly the title among the entries of a
\* search response
IdsTitled(data, title) ==
    IF ~HasKey(data, K_data) THEN {}
    ELSE LET es == Get(data, K_data).v
         IN  {Get(Get(es[j], K_document), K_id) :
                 j \in {i \in 1..Len(es) : /\ HasKey(es[i], K_document)
                                           /\ Get(Get(es[i], K_document), K_title) = JStr(title)}}

IsSearch(post) == post.url = "/api/documents.search"
IsUpdate(post) == post.url = "/api/documents.update"
IsPublish(post) == post.url = "/api/documents.create"

\* C21: create_or_update_document(title, content) searches for the title
\* once; when the search answered, it then does exactly one of update_document,
\* on the id of a found document with exactly that title, and
\* publish_document, when there is no such document, never both; and it
\* returns the response of that operation.
C21_SearchThenUpdateOrPublish ==
    /\ Len(posts) <= 2
    /\ posts # <<>> => /\ IsSearch(posts[1])
                       /\ posts[1].json = SearchParams(doc_title)
    /\ Len(posts) = 2 => /\ ~IsSearch(posts[2])
                         /\ posts[1].st = "returned"
    /\ (dpc = "done" /\ posts[1].st = "returned")
         => /\ Len(posts) = 2
            /\ IF IdsTitled(posts[1].val, doc_title) # {}
               THEN /\ IsUpdate(posts[2])
                    /\ Get(posts[2].json, K_id) \in IdsTitled(posts[1].val, doc_title)
                    /\ Get(posts[2].json, K_title) = JStr(doc_title)
                    /\ Get(posts[2].json, K_text) = JStr(doc_content)
               ELSE /\ IsPublish(posts[2])
                    /\ Get(posts[2].json, K_title) = JStr(doc_title)
                    /\ Get(posts[2].json, K_text) = JStr(doc_content)
            /\ posts[2].st = "returned" => doc_outcome = Returned(posts[2].val)
            /\ posts[2].st = "raised" => doc_outcome = Raised(posts[2].exc)

\* the search for "A" listed the documents "a" (d1) and "A" (d2): d2 was
\* updated, nothing was published, and the response of the update returned
C21_Witness ==
    /\ dpc = "done"
    /\ doc_title = <<"A">>
    /\ Len(posts) = 2
    /\ posts[1].st = "returned"
    /\ HasKey(posts[1].val, K_data)
    /\ Len(Get(posts[1].val, K_data).v) = 2
    /\ HasKey(Get(posts[1].val, K_data).v[1], K_document)
    /\ Get(Get(Get(posts[1].val, K_data).v[1], K_document), K_title) = JStr(<<"a">>)
    /\ IdsTitled(posts[1].val, doc_title) = {JStr(<<"d", "2">>)}
    /\ IsUpdate(posts[2])
    /\ Get(posts[2].json, K_id) = JStr(<<"d", "2">>)
    /\ doc_outcome = Returned(JObj(<<Member(K_data, JObj(<<Member(K_id, JStr(<<"d", "2">>))>>))>>))

(***************************************************************************)
(* Properties of IntelligenceAgent.generate_report, under SpecIntel.       *)
(***************************************************************************)
\* the i-th call_llm invocation returned a response that fails the JSON
\* extraction
Unparseable(i) ==
    /\ intel_calls[i].st = "returned"
    /\ ReportData[intel_calls[i].val].st = "raised"

\* every call_llm invocation has the whole of max_retries for itself
FreshBudget ==
    /\ iattempt < agent_max_retries
    /\ \A i \in 1..Len(intel_calls) :
         /\ intel_calls[i].attempts \in 1..agent_max_retries
         /\ intel_calls[i].st = "raised" => intel_calls[i].attempts = agent_max_retries

\* every invocation before the last returned a response that does not
\* parse, and after an invocation that did so generate_report is inside the
\* next one: it has neither returned nor raised
ReparsedUntilJson ==
    /\ \A i \in 1..Len(intel_calls) - 1 : Unparseable(i)
    /\ (intel_calls # <<>> /\ Unparseable(Len(intel_calls))) => ipc = "calling"

\* the LLMError of an invocation that used up its attempts is what
\* generate_report raises, with no further invocation
LLMErrorPropagates ==
    \A i \in 1..Len(intel_calls) :
        intel_calls[i].st = "raised"
            => /\ i = Len(intel_calls)
               /\ intel_calls[i].exc.type = "LLMError"
               /\ ipc = "raised"
               /\ report_outcome = Raised(intel_calls[i].exc)

\* a report that generate_report returned is the report of the last
\* response and has the topic of the research output
ReportCarriesTopic ==
    ipc = "returned"
        => /\ intel_calls # <<>>
           /\ intel_calls[Len(intel_calls)].st = "returned"
           /\ ~Unparseable(Len(intel_calls))
           /\ report_outcome.st = "returned"
           /\ report_outcome.val.topic = report_topic
           /\ report_outcome.val.executive_summary = <<"e">>

\* C26: a response that call_llm returns and that fails the JSON extraction
\* is followed by a new call_llm invocation, which has max_retries attempts
\* of its own, and so on until a response parses; the LLMError of a call_llm
\* that used up its attempts leaves generate_report at once; and the report
\* made of a response that parses has the topic of the research output.
C26_ReparseUntilJson ==
    /\ FreshBudget
    /\ ReparsedUntilJson
    /\ LLMErrorPropagates
    /\ ReportCarriesTopic

(***************************************************************************)
(* Properties of CrewAITool._run, under SpecShim.                          *)
(***************************************************************************)
\* the keyword arguments are one argument, "kwargs" or "arguments", whose
\* value is a dict
SingleNested ==
    /\ Len(run_kwargs) = 1
    /\ run_kwargs[1].k \in {K_kwargs, K_arguments}
    /\ run_kwargs[1].val.t = "obj"

\* the arguments the filters apply to
GivenArguments == IF SingleNested THEN run_kwargs[1].val.v ELSE run_kwargs

Passes(m) ==
    /\ ~(m.val.t = "str" /\ m.val.v = <<"N", "o", "n", "e">>)
    /\ args_schema # NoArgs => m.k \in args_schema.model_fields

Members(ms) == {ms[i] : i \in 1..Len(ms)}

\* C30: when the tool has an args schema other than NoArgs, the wrapped
\* execute receives only arguments named in the schema; it never receives an
\* argument whose value is the string "None"; a tool bound to a command
\* passes that command; and a single nested "kwargs" or "arguments" dict is
\* unwrapped first, so that the filters apply to its members.
C30_FilteredArguments ==
    /\ Len(execute_calls) <= 1
    /\ \A c \in Members(execute_calls) :
         /\ args_schema # NoArgs
              => \A m \in Members(c.kwargs) : m.k \in args_schema.model_fields
         /\ \A m \in Members(c.kwargs) : ~(m.val.t = "str" /\ m.val.v = <<"N", "o", "n", "e">>)
         /\ command_name # <<>> => c.command = command_name
         /\ Members(c.kwargs) = {m \in Members(GivenArguments) : Passes(m)}
         /\ Len(c.kwargs) = Cardinality(Members(c.kwargs))

\* the tool of the command "search" with the fields q and limit was run with
\* kwargs = {q: "v", limit: "None"} nested, and execute got the command and q
C30_Witness ==
    /\ tool_outcome = Returned(<<"o", "k">>)
    /\ command_name = <<"s", "e", "a", "r", "c", "h">>
    /\ args_schema = Schema({<<"q">>, <<"l", "i", "m", "i", "t">>})
    /\ run_kwargs = <<Member(K_kwargs, JObj(<<Member(<<"q">>, JStr(<<"v">>)), Member(<<"l", "i", "m", "i", "t">>, JStr(<<"N", "o", "n", "e">>))>>))>>
    /\ execute_calls = <<ExecuteCall(<<"s", "e", "a", "r", "c", "h">>, <<Member(<<"q">>, JStr(<<"v">>))>>)>>

(***************************************************************************)
(* Properties of to_json_object, under SpecJson.                           *)
(***************************************************************************)
Extracted == jout.st # "pending"

HasOp(ops) == \E i \in 2..Len(jshape) : jshape[i] \in ops

\* what extraction gives when the value is found / when it is not
ExtractsValue == jout.st = "returned" /\ jout.val = jx
ExtractFails == jout.st = "raised" /\ jout.exc = JSONDecodeError

\* C8: to_json_object of the serialization of an object or array X, plain or
\* wrapped in a fenced block labelled json, is X.
C8_RoundTrip ==
    (Extracted /\ jshape \in {<<"dumps">>, <<"dumps", "fence:json">>}) => ExtractsValue

C8_Witness ==
    /\ Extracted
    /\ jshape = <<"dumps", "fence:json">>
    /\ jx = JArr(<<JStr(FenceString), JNum(12)>>)
    /\ jout.val = jx

\* the result the extraction algorithm gives when the labels in fenceOps
\* mark a fenced block: the body of the block is parsed if there is one, the
\* whole text if there is none
ExtractionFollows(fenceOps) ==
    IF HasOp(fenceOps)
    THEN IF jshape[1] = "dumps" THEN ExtractsValue ELSE ExtractFails
    ELSE IF jshape[1] = "dumps" /\ \A i \in 2..Len(jshape) : jshape[i] = "ws"
         THEN ExtractsValue
         ELSE ExtractFails

\* C9 as claimed: only a fenced block labelled json is looked for; its body
\* alone is parsed and a decode error of the body is raised; without such a
\* block the whole text is parsed.
C9_JsonFenceOnly == Extracted => ExtractionFollows({"fence:json"})

\* C9 amended: the fenced block looked for is labelled json or python (the
\* label on the opening line, the body between that line and the closing
\* fence line); its body alone is parsed and a decode error of the body is
\* raised; without such a block the whole text is parsed.
C9_JsonOrPythonFence == Extracted => ExtractionFollows({"fence:json", "fence:python"})

C9_Witness ==
    /\ Extracted
    /\ jshape = <<"dumps", "fence:python", "text">>
    /\ jout.st = "returned"
    /\ jout.val = jx

====
